---------------------------- MODULE Spec2Model ----------------------------
(***************************************************************************)
(* A model of the audio converter of SDL_sound (alt_audio_convert.c):      *)
(* BuildAudioCVT assembles a chain of in-place buffer adapters for a       *)
(* (source, destination) pair of audio descriptors, Sound_ConvertAudio     *)
(* runs the chain over the caller's buffer.                                *)
(*                                                                         *)
(* The buffer is a sequence of bytes (offset o of the C buffer is element  *)
(* o+1); a byte that was never written holds Uninit.  16-bit and 32-bit    *)
(* accesses go through the byte order of the machine (bigEndian), which is *)
(* fixed by the build and therefore chosen once, in Init.                  *)
(*                                                                         *)
(* len_mult is a C double that is only ever multiplied or divided by 2; it *)
(* is kept as the exact fraction <<n, d>>.  The float Ratio of             *)
(* createRateConverter and the float Value of findFraction are kept as     *)
(* exact fractions <<p, q>> too; the rates and ratios drawn here are       *)
(* exactly representable or far from every threshold they are compared to. *)
(***************************************************************************)
EXTENDS Integers, Sequences, FiniteSets, TLC

(***************************************************************************)
(* Bounds of the model.                                                    *)
(***************************************************************************)
\* channel counts 0..MaxChannels are offered to BuildAudioCVT
MaxChannels == 3
\* buffers of MaxFrames \div 2 and of MaxFrames source frames are loaded
MaxFrames == 4
\* findFraction is called on the ratios k / FracGrid around [31/64, 64/31]
FracGrid == 64

(***************************************************************************)
(* Program constants.                                                      *)
(***************************************************************************)
_fsize == 64
AdapterSlots == 32
MaxRate == 262144
\* SDL_audio.h format codes (bit 0x0008: 8 bit, 0x0010: 16 bit, 0x0020:
\* the bit IS_FLOAT tests, 0x1000: big endian, 0x8000: signed)
AUDIO_U8 == 8
AUDIO_S8 == 32776
AUDIO_U16LSB == 16
AUDIO_S16LSB == 32784
AUDIO_U16MSB == 4112
AUDIO_S16MSB == 36880
\* the two codes that carry the 0x0020 bit (32-bit float samples)
AUDIO_F32LSB == 33056
AUDIO_F32MSB == 37152

\* the content of memory that was never written; the result of a call that
\* was never made
Uninit == 0 - 1
NoResult == 0 - 2
NULL == "NULL"
UNSET == "UNSET"

(***************************************************************************)
(* Bit tests on a format code.                                             *)
(***************************************************************************)
Bit(x, b) == (x \div b) % 2 = 1

AUDIO_U16SYS(big) == IF big THEN AUDIO_U16MSB ELSE AUDIO_U16LSB
AUDIO_S16SYS(big) == IF big THEN AUDIO_S16MSB ELSE AUDIO_S16LSB

IS_8BIT(x) == Bit(x.format, 8)
IS_16BIT(x) == Bit(x.format, 16)
IS_FLOAT(x) == Bit(x.format, 32)
IS_SIGNED(x) == Bit(x.format, 32768)
\* ((AUDIO_U16SYS ^ (x).format) & 0x1000): non-zero exactly when the
\* endian bit of x DIFFERS from the machine's
IS_SYSENDIAN(x, big) == Bit(AUDIO_U16SYS(big), 4096) # Bit(x.format, 4096)

min(a, b) == IF a < b THEN a ELSE b
max(a, b) == IF a > b THEN a ELSE b

(***************************************************************************)
(* Memory: byte and native 16-bit access.                                  *)
(***************************************************************************)
RECURSIVE Pad(_, _)
Pad(m, n) == IF Len(m) >= n THEN m ELSE Pad(Append(m, Uninit), n)

Rd8(m, o) == IF o + 1 <= Len(m) THEN m[o + 1] ELSE Uninit
Wr8(m, o, v) == [Pad(m, o + 1) EXCEPT ![o + 1] = v]

\* Uint16 at sample index i (bytes 2i, 2i+1) in the machine's byte order
\* (a sample with a byte that was never written reads as Uninit, and storing
\* Uninit leaves both bytes Uninit)
Rd16(m, i, big) ==
    IF Rd8(m, 2 * i) = Uninit \/ Rd8(m, 2 * i + 1) = Uninit THEN Uninit
    ELSE IF big THEN Rd8(m, 2 * i) * 256 + Rd8(m, 2 * i + 1)
    ELSE Rd8(m, 2 * i + 1) * 256 + Rd8(m, 2 * i)
Wr16(m, i, v, big) ==
    IF v = Uninit THEN Wr8(Wr8(m, 2 * i, Uninit), 2 * i + 1, Uninit)
    ELSE IF big THEN Wr8(Wr8(m, 2 * i, v \div 256), 2 * i + 1, v % 256)
    ELSE Wr8(Wr8(m, 2 * i, v % 256), 2 * i + 1, v \div 256)

\* f applied to a value that was read, Uninit carried through
Known(v, r) == IF v = Uninit THEN Uninit ELSE r

ToS16(u) == IF u >= 32768 THEN u - 65536 ELSE u
ToU16(s) == s % 65536
ToS8(u) == IF u >= 128 THEN u - 256 ELSE u
ToU8(s) == s % 256


(***************************************************************************)
(* An adapter works on st = [m |-> the buffer, hi |-> one past the highest *)
(* offset written so far] and returns st extended by len, the length it    *)
(* returns, and calls, the rate kernels it invoked.                        *)
(***************************************************************************)
W8(st, o, v) == [st EXCEPT !.m = Wr8(st.m, o, v), !.hi = max(st.hi, o + 1)]
W16(st, i, v, big) ==
    [st EXCEPT !.m = Wr16(st.m, i, v, big), !.hi = max(st.hi, 2 * i + 2)]
Start(m) == [m |-> m, hi |-> 0]
Ret(st, n) == [m |-> st.m, hi |-> st.hi, len |-> n, calls |-> <<>>]

\* for( i = length; i--; ) buffer[i] = inp[i] << 8  (shift = 256)
\*                         buffer[i] = inp[i]       (shift = 1)
RECURSIVE expandLoop(_, _, _, _)
expandLoop(st, i, shift, big) ==
    IF i <= 0 THEN st
    ELSE expandLoop(W16(st, i - 1, Known(Rd8(st.m, i - 1),
                                     (Rd8(st.m, i - 1) * shift) % 65536), big),
                    i - 1, shift, big)

expand8BitTo16BitSys(m, length, big) ==
    Ret(expandLoop(Start(m), length, 256, big), 2 * length)

expand8BitTo16BitWrong(m, length, big) ==
    Ret(expandLoop(Start(m), length, 1, big), 2 * length)

RECURSIVE swapLoop(_, _, _)
swapLoop(st, i, big) ==
    IF i <= 0 THEN st
    ELSE LET a == Rd16(st.m, i - 1, big)
         IN swapLoop(W16(st, i - 1,
                         Known(a, ((a * 256) % 65536) + (a \div 256)), big),
                     i - 1, big)

swapBytes(m, length, big) == Ret(swapLoop(Start(m), length \div 2, big), length)

\* buffer[i] = inp[i] >> 8  (high = TRUE),  buffer[i] = inp[i] & 0xff
RECURSIVE cutLoop(_, _, _, _, _)
cutLoop(st, i, n, high, big) ==
    IF i >= n THEN st
    ELSE LET a == Rd16(st.m, i, big)
         IN cutLoop(W8(st, i, Known(a, IF high THEN a \div 256 ELSE a % 256)),
                    i + 1, n, high, big)

cut16BitSysTo8Bit(m, length, big) ==
    Ret(cutLoop(Start(m), 0, length \div 2, TRUE, big), length \div 2)

cut16BitWrongTo8Bit(m, length, big) ==
    Ret(cutLoop(Start(m), 0, length \div 2, FALSE, big), length \div 2)

(***************************************************************************)
(* changeSigned XORs whole Uint32 words with XOR and the tail bytes with   *)
(* byte i&3 of XOR: every byte at offset o meets the byte o mod 4 of       *)
(* the constant as the machine lays it out.  The constant is given by its  *)
(* four bytes, most significant first; each is 0x80 or 0x00.               *)
(***************************************************************************)
XorByte(b, k) == IF k = 128 THEN Known(b, (b + 128) % 256) ELSE b
NativeByte(XOR, o, big) == IF big THEN XOR[(o % 4) + 1] ELSE XOR[4 - (o % 4)]

RECURSIVE changeLoop(_, _, _, _, _)
changeLoop(st, o, length, XOR, big) ==
    IF o >= length THEN st
    ELSE changeLoop(W8(st, o, XorByte(Rd8(st.m, o), NativeByte(XOR, o, big))),
                    o + 1, length, XOR, big)

changeSigned(m, length, XOR, big) ==
    Ret(changeLoop(Start(m), 0, length, XOR, big), length)

changeSigned16BitSys(m, length, big) ==
    changeSigned(m, length, <<128, 0, 128, 0>>, big)
changeSigned16BitWrong(m, length, big) ==
    changeSigned(m, length, <<0, 128, 0, 128>>, big)
changeSigned8Bit(m, length, big) ==
    changeSigned(m, length, <<128, 128, 128, 128>>, big)


(***************************************************************************)
(* Channel adapters.  "*(src++) + *(src++)" and "*(--dst) = *(--dst) = x"  *)
(* modify one pointer twice without a sequence point, which is undefined:  *)
(* ub = "seq" is the build in which each access uses the pointer as its    *)
(* own side effect left it (two adjacent slots), ub = "merged" the build   *)
(* in which both accesses use one pointer value (the value before both     *)
(* post-increments, the value after both pre-decrements).  Either way the  *)
(* pointer moves by two slots per iteration.                               *)
(***************************************************************************)
UBChoices == {"seq", "merged"}

\* ((int) a + b) >> 1 on values of the sample type, stored back into it
Mean16(a, b, signed) ==
    IF a = Uninit \/ b = Uninit THEN Uninit
    ELSE IF signed THEN ToU16((ToS16(a) + ToS16(b)) \div 2)
    ELSE ((a + b) \div 2) % 65536
Mean8(a, b, signed) ==
    IF a = Uninit \/ b = Uninit THEN Uninit
    ELSE IF signed THEN ToU8((ToS8(a) + ToS8(b)) \div 2)
    ELSE ((a + b) \div 2) % 256

RECURSIVE mono16Loop(_, _, _, _, _, _)
mono16Loop(st, i, n, signed, big, ub) ==
    IF i >= n THEN st
    ELSE LET a == Rd16(st.m, 2 * i, big)
             b == IF ub = "seq" THEN Rd16(st.m, 2 * i + 1, big) ELSE a
         IN mono16Loop(W16(st, i, Mean16(a, b, signed), big),
                       i + 1, n, signed, big, ub)

convertStereoToMonoS16Bit(m, length, big, ub) ==
    Ret(mono16Loop(Start(m), 0, length \div 4, TRUE, big, ub),
        2 * (length \div 4))

convertStereoToMonoU16Bit(m, length, big, ub) ==
    Ret(mono16Loop(Start(m), 0, length \div 4, FALSE, big, ub),
        2 * (length \div 4))

RECURSIVE mono8Loop(_, _, _, _, _)
mono8Loop(st, i, n, signed, ub) ==
    IF i >= n THEN st
    ELSE LET a == Rd8(st.m, 2 * i)
             b == IF ub = "seq" THEN Rd8(st.m, 2 * i + 1) ELSE a
         IN mono8Loop(W8(st, i, Mean8(a, b, signed)), i + 1, n, signed, ub)

convertStereoToMonoS8Bit(m, length, ub) ==
    Ret(mono8Loop(Start(m), 0, length \div 2, TRUE, ub), length \div 2)

convertStereoToMonoU8Bit(m, length, ub) ==
    Ret(mono8Loop(Start(m), 0, length \div 2, FALSE, ub), length \div 2)

\* dst = (Uint16*)Data.buffer + length: sample index length; i runs from
\* length>>1 down to 1 and copies sample i-1 below dst
RECURSIVE stereo16Loop(_, _, _, _, _)
stereo16Loop(st, i, dst, big, ub) ==
    IF i <= 0 THEN st
    ELSE LET v == Rd16(st.m, i - 1, big)
         IN stereo16Loop(
                IF ub = "seq"
                THEN W16(W16(st, dst - 1, v, big), dst - 2, v, big)
                ELSE W16(st, dst - 2, v, big),
                i - 1, dst - 2, big, ub)

convertMonoToStereo16Bit(m, length, big, ub) ==
    Ret(stereo16Loop(Start(m), length \div 2, length, big, ub), 2 * length)

\* Uint8* dst = Data.buffer + 2*length, where Data.buffer is a short*: the
\* sum is taken in shorts, so dst starts at byte offset 4*length
RECURSIVE stereo8Loop(_, _, _, _)
stereo8Loop(st, i, dst, ub) ==
    IF i <= 0 THEN st
    ELSE LET v == Rd8(st.m, i - 1)
         IN stereo8Loop(
                IF ub = "seq" THEN W8(W8(st, dst - 1, v), dst - 2, v)
                ELSE W8(st, dst - 2, v),
                i - 1, dst - 2, ub)

convertMonoToStereo8Bit(m, length, ub) ==
    Ret(stereo8Loop(Start(m), length, 4 * length, ub), 2 * length)

\* buffer[i] = 38084 * buffer[i] >> 16 on Sint16
RECURSIVE gainLoop(_, _, _)
gainLoop(st, i, big) ==
    IF i <= 0 THEN st
    ELSE LET a == Rd16(st.m, i - 1, big)
         IN gainLoop(W16(st, i - 1,
                         Known(a, ToU16((38084 * ToS16(a)) \div 65536)), big),
                     i - 1, big)

minus5dB(m, length, big) == Ret(gainLoop(Start(m), length \div 2, big), length)


(***************************************************************************)
(* 32-bit float samples.  A float is read as its four bytes, most          *)
(* significant first: sign, 8 exponent bits, 23 mantissa bits.             *)
(***************************************************************************)
RdF(m, i, big) ==
    IF big THEN <<Rd8(m, 4 * i), Rd8(m, 4 * i + 1),
                  Rd8(m, 4 * i + 2), Rd8(m, 4 * i + 3)>>
    ELSE <<Rd8(m, 4 * i + 3), Rd8(m, 4 * i + 2),
           Rd8(m, 4 * i + 1), Rd8(m, 4 * i)>>

WF(st, i, f, big) ==
    IF big THEN W8(W8(W8(W8(st, 4 * i, f[1]), 4 * i + 1, f[2]),
                      4 * i + 2, f[3]), 4 * i + 3, f[4])
    ELSE W8(W8(W8(W8(st, 4 * i, f[4]), 4 * i + 1, f[3]),
               4 * i + 2, f[2]), 4 * i + 3, f[1])

RECURSIVE Pow2(_)
Pow2(k) == IF k <= 0 THEN 1 ELSE 2 * Pow2(k - 1)

(***************************************************************************)
(* The Sint16 cutFloatTo16Bit stores for the float f: 32767 above 1.0,     *)
(* -32768 below -1.0, else 32767 * f truncated toward zero.  With          *)
(* f = M * 2^(E-150), M the 24-bit significand, the product is             *)
(* 32767 * M / 2^k for k = 150 - E >= 23; it is formed in two 12-bit       *)
(* halves of M to stay within 32-bit integers.  The product is taken       *)
(* exactly: the single-precision product of the C code equals it for every *)
(* f whose significand has at most 9 significant bits, which is what the   *)
(* buffers loaded here hold.  A NaN compares false both times and its      *)
(* conversion to an integer is undefined; none is loaded.                  *)
(***************************************************************************)
CutFloat(f) ==
    LET neg == f[1] >= 128
        E == (f[1] % 128) * 2 + (f[2] \div 128)
        man == (f[2] % 128) * 65536 + f[3] * 256 + f[4]
        M == 8388608 + man
        k == 150 - E
        A == 32767 * (M \div 4096)
        B == 32767 * (M % 4096)
        t == IF E = 0 \/ k >= 40 THEN 0
             ELSE (A + (B \div 4096)) \div Pow2(k - 12)
    IN IF \E j \in 1..4 : f[j] = Uninit THEN Uninit
       ELSE IF E = 255 /\ man # 0 THEN 0
       ELSE IF ~neg /\ (E > 127 \/ (E = 127 /\ man > 0)) THEN 32767
       ELSE IF neg /\ (E > 127 \/ (E = 127 /\ man > 0)) THEN ToU16(-32768)
       ELSE ToU16(IF neg THEN -t ELSE t)

RECURSIVE cutFloatLoop(_, _, _, _)
cutFloatLoop(st, i, n, big) ==
    IF i >= n THEN st
    ELSE cutFloatLoop(W16(st, i, CutFloat(RdF(st.m, i, big)), big),
                      i + 1, n, big)

cutFloatTo16Bit(m, length, big) ==
    Ret(cutFloatLoop(Start(m), 0, length \div 4, big), 2 * (length \div 4))

(***************************************************************************)
(* The float expand16BitToFloat stores for the Sint16 s: s * (1./32767),   *)
(* that is s / 32767 rounded to 24 significant bits (the double product is *)
(* never close enough to a rounding boundary of float for the two          *)
(* roundings to differ).  Norm finds the exponent, Divide the 23 mantissa  *)
(* bits by long division.                                                  *)
(***************************************************************************)
RECURSIVE Norm(_, _)
Norm(a, j) == IF a >= 32767 THEN <<a, j>> ELSE Norm(2 * a, j + 1)

RECURSIVE Divide(_, _, _)
Divide(r, man, bits) ==
    IF bits = 0 THEN <<r, man>>
    ELSE IF 2 * r >= 32767 THEN Divide(2 * r - 32767, 2 * man + 1, bits - 1)
    ELSE Divide(2 * r, 2 * man, bits - 1)

ExpandFloat(u) ==
    LET s == ToS16(u)
        a == IF s < 0 THEN -s ELSE s
        nj == Norm(a, 0)
        qr == Divide(nj[1] - 32767, 0, 23)
        up == 2 * qr[1] > 32767
        man0 == qr[2] + (IF up THEN 1 ELSE 0)
        E == IF man0 = 8388608 THEN 127 - nj[2] + 1 ELSE 127 - nj[2]
        man == IF man0 = 8388608 THEN 0 ELSE man0
        sign == IF s < 0 THEN 128 ELSE 0
    IN IF u = Uninit THEN <<Uninit, Uninit, Uninit, Uninit>>
       ELSE IF s = 0 THEN <<0, 0, 0, 0>>
       ELSE <<sign + (E \div 2), (E % 2) * 128 + (man \div 65536),
              (man \div 256) % 256, man % 256>>

RECURSIVE expandFloatLoop(_, _, _)
expandFloatLoop(st, i, big) ==
    IF i <= 0 THEN st
    ELSE expandFloatLoop(
             WF(st, i - 1, ExpandFloat(Rd16(st.m, i - 1, big)), big),
             i - 1, big)

expand16BitToFloat(m, length, big) ==
    Ret(expandFloatLoop(Start(m), length \div 2, big), 2 * length)


(***************************************************************************)
(* The rate kernels _doubleRate, _halfRate, _varRateUp and _varRateDown    *)
(* (suffix 1: stride 1, suffix 2: stride 2) are generated from             *)
(* filter_templates.h, which is not among the source files.  They are      *)
(* modelled from the converter's description: a kernel reads n samples at  *)
(* sample offset off with the given stride, leaves its output in their     *)
(* place and returns the number of output samples (twice n, half of n, or  *)
(* n scaled by the fraction of the filter table).  The filter arithmetic   *)
(* is not modelled: output sample k takes the value of the input sample    *)
(* it is nearest to.                                                       *)
(***************************************************************************)
KernelCount(kernel, n, filter) ==
    CASE kernel = "_doubleRate" -> 2 * n
      [] kernel = "_halfRate" -> n \div 2
      [] OTHER -> IF filter.numerator > 0
                  THEN (n * filter.denominator) \div filter.numerator
                  ELSE 0

RECURSIVE kernelLoop(_, _, _, _, _, _, _, _)
kernelLoop(st, m0, k, nOut, nIn, stride, off, big) ==
    IF k >= nOut THEN st
    ELSE kernelLoop(
             W16(st, off + stride * k,
                 Rd16(m0, off + stride * ((k * nIn) \div nOut), big), big),
             m0, k + 1, nOut, nIn, stride, off, big)

\* one kernel invocation on st: the new st, the count returned, the call made
Kernel(st, kernel, stride, off, n, filter, big) ==
    LET nOut == KernelCount(kernel, n, filter)
    IN [st |-> kernelLoop(st, st.m, 0, nOut, n, stride, off, big),
        count |-> nOut,
        call |-> [kernel |-> kernel, stride |-> stride, off |-> off, n |-> n]]

\* a stereo adapter: the stride-2 kernel at offsets 0 and 1 over length>>2
\* frames, the second count times factor
StereoRate(m, length, kernel, factor, filter, big) ==
    LET n == length \div 4
        k0 == Kernel(Start(m), kernel, 2, 0, n, filter, big)
        k1 == Kernel(k0.st, kernel, 2, 1, n, filter, big)
    IN [m |-> k1.st.m, hi |-> k1.st.hi, len |-> factor * k1.count,
        calls |-> <<k0.call, k1.call>>]

\* a mono adapter: one kernel of the given stride over length>>1 samples
MonoRate(m, length, kernel, stride, factor, filter, big) ==
    LET k0 == Kernel(Start(m), kernel, stride, 0, length \div 2, filter, big)
    IN [m |-> k0.st.m, hi |-> k0.st.hi, len |-> factor * k0.count,
        calls |-> <<k0.call>>]

doubleRateStereo(m, length, filter, big) ==
    StereoRate(m, length, "_doubleRate", 4, filter, big)
doubleRateMono(m, length, filter, big) ==
    MonoRate(m, length, "_doubleRate", 1, 2, filter, big)
halfRateStereo(m, length, filter, big) ==
    StereoRate(m, length, "_halfRate", 4, filter, big)
\* return 2*_halfRate2( ... ): the stride-2 kernel
halfRateMono(m, length, filter, big) ==
    MonoRate(m, length, "_halfRate", 2, 2, filter, big)
varRateUpStereo(m, length, filter, big) ==
    StereoRate(m, length, "_varRateUp", 4, filter, big)
varRateUpMono(m, length, filter, big) ==
    MonoRate(m, length, "_varRateUp", 1, 2, filter, big)
\* return 2 * _varRateDown2( ... )
varRateDownStereo(m, length, filter, big) ==
    StereoRate(m, length, "_varRateDown", 2, filter, big)
\* return _varRateDown1( ... )
varRateDownMono(m, length, filter, big) ==
    MonoRate(m, length, "_varRateDown", 1, 1, filter, big)

(***************************************************************************)
(* The call through Data->adapter[i]: the adapter named a.                 *)
(***************************************************************************)
Apply(a, m, length, filter, big, ub) ==
    CASE a = "expand8BitTo16BitSys" -> expand8BitTo16BitSys(m, length, big)
      [] a = "expand8BitTo16BitWrong" -> expand8BitTo16BitWrong(m, length, big)
      [] a = "expand16BitToFloat" -> expand16BitToFloat(m, length, big)
      [] a = "swapBytes" -> swapBytes(m, length, big)
      [] a = "cut16BitSysTo8Bit" -> cut16BitSysTo8Bit(m, length, big)
      [] a = "cut16BitWrongTo8Bit" -> cut16BitWrongTo8Bit(m, length, big)
      [] a = "cutFloatTo16Bit" -> cutFloatTo16Bit(m, length, big)
      [] a = "changeSigned16BitSys" -> changeSigned16BitSys(m, length, big)
      [] a = "changeSigned16BitWrong" -> changeSigned16BitWrong(m, length, big)
      [] a = "changeSigned8Bit" -> changeSigned8Bit(m, length, big)
      [] a = "convertStereoToMonoS16Bit" ->
             convertStereoToMonoS16Bit(m, length, big, ub)
      [] a = "convertStereoToMonoU16Bit" ->
             convertStereoToMonoU16Bit(m, length, big, ub)
      [] a = "convertStereoToMonoS8Bit" -> convertStereoToMonoS8Bit(m, length, ub)
      [] a = "convertStereoToMonoU8Bit" -> convertStereoToMonoU8Bit(m, length, ub)
      [] a = "convertMonoToStereo16Bit" ->
             convertMonoToStereo16Bit(m, length, big, ub)
      [] a = "convertMonoToStereo8Bit" -> convertMonoToStereo8Bit(m, length, ub)
      [] a = "minus5dB" -> minus5dB(m, length, big)
      [] a = "doubleRateStereo" -> doubleRateStereo(m, length, filter, big)
      [] a = "doubleRateMono" -> doubleRateMono(m, length, filter, big)
      [] a = "halfRateStereo" -> halfRateStereo(m, length, filter, big)
      [] a = "halfRateMono" -> halfRateMono(m, length, filter, big)
      [] a = "varRateUpStereo" -> varRateUpStereo(m, length, filter, big)
      [] a = "varRateUpMono" -> varRateUpMono(m, length, filter, big)
      [] a = "varRateDownStereo" -> varRateDownStereo(m, length, filter, big)
      [] a = "varRateDownMono" -> varRateDownMono(m, length, filter, big)


(***************************************************************************)
(* findFraction.  frac is a const Uint8 table, so each -1 separator is     *)
(* stored as 255.  A float is a fraction <<p, q>> with q > 0.              *)
(***************************************************************************)
frac ==
    <<1, 2, 255,
      1, 3, 255,
      2, 4, 5, 255,
      3, 5, 7, 255,
      3, 4, 6, 7, 8, 9, 255,
      5, 7, 11, 255,
      4, 5, 6, 8, 9, 10, 11, 12, 13, 255,
      5, 7, 9, 11, 13, 15, 255,
      5, 7, 8, 10, 11, 13, 14, 16, 255,
      7, 9, 11, 13, 255,
      6, 7, 8, 9, 10, 12, 13, 14, 15, 16, 255,
      7, 11, 13, 255,
      7, 8, 9, 10, 11, 12, 14, 15, 16, 255,
      9, 11, 13, 15, 255,
      8, 11, 13, 14, 16, 255,
      9, 11, 13, 15>>

\* a/b > c/d for a, c >= 0 and b, d > 0, by continued fractions (no product
\* that could leave the 32-bit integers)
RECURSIVE FracGT(_, _, _, _)
FracGT(a, b, c, d) ==
    IF a = 0 THEN FALSE
    ELSE IF c = 0 THEN TRUE
    ELSE IF a \div b # c \div d THEN a \div b > c \div d
    ELSE IF a % b = 0 THEN FALSE
    ELSE IF c % d = 0 THEN TRUE
    ELSE FracGT(d, c % d, b, a % b)

\* the state of the scan before its first iteration: num is not initialised
\* and holds g
FracStart(g) ==
    [n |-> 0, num |-> g, den |-> 1, BestErr |-> <<0, 1>>,
     Result |-> [denominator |-> 0, numerator |-> 0], reads |-> {}]

\* one iteration of "for( n = 0; n < sizeof(frac); num=frac[++n] )" on the
\* scan state s; o is what a read past the end of frac returns
FracStep(Value, s, o) ==
    LET den == IF s.num < 0 THEN s.den + 1 ELSE s.den
        x == <<Value[1] * s.num, Value[2] * den>>
        \* min( RelErr, 1/RelErr ) for a positive RelErr
        RelErr == IF x[1] <= x[2] THEN x ELSE <<x[2], x[1]>>
        \* a zero or negative RelErr never exceeds BestErr
        better == s.num > 0
                  /\ FracGT(RelErr[1], RelErr[2], s.BestErr[1], s.BestErr[2])
    IN [n |-> s.n + 1,
        num |-> IF s.n + 1 < Len(frac) THEN frac[s.n + 2] ELSE o,
        den |-> den,
        BestErr |-> IF better THEN RelErr ELSE s.BestErr,
        Result |-> IF better THEN [denominator |-> den, numerator |-> s.num]
                   ELSE s.Result,
        reads |-> s.reads \cup {s.n + 1}]

RECURSIVE FracScan(_, _)
FracScan(Value, s) ==
    IF s.n >= Len(frac) THEN s ELSE FracScan(Value, FracStep(Value, s, 0))

OutOfRange(Value) == 64 * Value[1] < 31 * Value[2] \/ 31 * Value[1] > 64 * Value[2]

findFraction(Value, g) ==
    IF OutOfRange(Value) THEN [denominator |-> 0, numerator |-> 0]
    ELSE FracScan(Value, FracStart(g)).Result


(***************************************************************************)
(* setupVarFilter.  Of the VarFilter table the model keeps pos_mod and the *)
(* incr flags; the coefficients c (calculateVarFilter) are not kept.  The  *)
(* fraction the table was set up for is kept with it, for the modelled     *)
(* kernels.  The local float phase is read before it is ever assigned: it  *)
(* starts as ph.                                                           *)
(***************************************************************************)
Up == [incr |-> -1]
Down == [incr |-> 1]

RECURSIVE incrLoop(_, _, _, _, _, _)
incrLoop(incr, i, n, d, phase, Direction) ==
    IF i >= d THEN incr
    ELSE IF phase >= n
    THEN incrLoop(Append(incr, Direction.incr), i + 1, n, d, phase - d + d,
                  Direction)
    ELSE incrLoop(Append(incr, 1 + Direction.incr), i + 1, n, d, phase + d,
                  Direction)

setupVarFilter(Ratio, Direction, g, ph) ==
    LET IRatio == findFraction(Ratio, g)
        n == IRatio.numerator
        d == IRatio.denominator
    IN [pos_mod |-> d,
        incr |-> incrLoop(<<>>, 0, n, d, ph, Direction),
        numerator |-> n, denominator |-> d]

(***************************************************************************)
(* The plan under construction: B = [adapter, len_mult, add, filter, fi],  *)
(* fi being the filter_index the builders pass around.                     *)
(***************************************************************************)
Slots == 0..(AdapterSlots - 1)

Half(r) == IF r[1] % 2 = 0 THEN <<r[1] \div 2, r[2]>> ELSE <<r[1], 2 * r[2]>>
Twice(r) == IF r[2] % 2 = 0 THEN <<r[1], r[2] \div 2>> ELSE <<2 * r[1], r[2]>>

\* Data->adapter[filter_index++] = a
Add(B, a) ==
    [B EXCEPT !.adapter = IF B.fi \in Slots THEN [@ EXCEPT ![B.fi] = a] ELSE @,
              !.fi = @ + 1]
\* Data->add *= 2; Data->len_mult *= 2
Grow_addOnly(B) == [B EXCEPT !.add = 2 * @]
Grow_lenOnly(B) == [B EXCEPT !.len_mult = Twice(@)]
Grow(B) == [B EXCEPT !.add = 2 * @, !.len_mult = Twice(@)]
\* Data->add /= 2; Data->len_mult /= 2
Shrink(B) == [B EXCEPT !.add = @ \div 2, !.len_mult = Half(@)]

\* while( Ratio > 64./31. ) and while( Ratio < 31./64. )
MoreDoubling(Ratio) == 31 * Ratio[1] > 64 * Ratio[2]
MoreHalving_belowQuarter(Ratio) == 4 * Ratio[1] < Ratio[2]
MoreHalving(Ratio) == 64 * Ratio[1] < 31 * Ratio[2]

RECURSIVE doubleLoop_untilOne(_, _, _)
doubleLoop_untilOne(B, Ratio, Mono) ==
    IF Ratio[1] > Ratio[2]
    THEN doubleLoop_untilOne(
             [Grow(Add(B, IF Mono THEN "doubleRateMono" ELSE "doubleRateStereo"))
                 EXCEPT !.add = @ + _fsize],
             Half(Ratio), Mono)
    ELSE [B |-> B, Ratio |-> Ratio]
RECURSIVE doubleLoop(_, _, _)
doubleLoop(B, Ratio, Mono) ==
    IF 31 * Ratio[1] > 64 * Ratio[2]
    THEN doubleLoop(
             [Grow(Add(B, IF Mono THEN "doubleRateMono" ELSE "doubleRateStereo"))
                 EXCEPT !.add = @ + _fsize],
             Half(Ratio), Mono)
    ELSE [B |-> B, Ratio |-> Ratio]

RECURSIVE halfLoop_untilOne(_, _, _)
halfLoop_untilOne(B, Ratio, Mono) ==
    IF Ratio[1] < Ratio[2]
    THEN halfLoop_untilOne(
             Add(B, IF Mono THEN "halfRateMono" ELSE "halfRateStereo"),
             Twice(Ratio), Mono)
    ELSE [B |-> B, Ratio |-> Ratio]
RECURSIVE halfLoop(_, _, _)
halfLoop(B, Ratio, Mono) ==
    IF 64 * Ratio[1] < 31 * Ratio[2]
    THEN halfLoop(Add(B, IF Mono THEN "halfRateMono" ELSE "halfRateStereo"),
                  Twice(Ratio), Mono)
    ELSE [B |-> B, Ratio |-> Ratio]

\* *fip is B.fi; -1 reports the error
createRateConverter_attenuateUp(B, SrcRate, DestRate, Channel, g, ph) ==
    LET Mono == 2 - Channel # 0
        Ratio == <<DestRate, SrcRate>>
        up == Ratio[1] > Ratio[2]
        VarPos == IF up THEN B.fi ELSE 0
        B1 == Add(IF up THEN [B EXCEPT !.fi = @ + 1] ELSE B, "minus5dB")
        dl == doubleLoop(B1, Ratio, Mono)
        hl == halfLoop(dl.B, dl.Ratio, Mono)
        B2 == hl.B
        R2 == hl.Ratio
    IN IF SrcRate < 1 \/ SrcRate > MaxRate \/ DestRate < 1 \/ DestRate > MaxRate
       THEN [B EXCEPT !.fi = -1]
       ELSE IF R2[1] > R2[2]
       THEN [Grow([B2 EXCEPT
                      !.filter = setupVarFilter(R2, Up, g, ph),
                      !.adapter = IF VarPos \in Slots
                                  THEN [@ EXCEPT ![VarPos] =
                                           IF Mono THEN "varRateUpMono"
                                           ELSE "varRateUpStereo"]
                                  ELSE @])
                EXCEPT !.add = @ + _fsize]
       ELSE Add([B2 EXCEPT !.filter = setupVarFilter(R2, Down, g, ph)],
                IF Mono THEN "varRateDownMono" ELSE "varRateDownStereo")
createRateConverter_appendVarUp(B, SrcRate, DestRate, Channel, g, ph) ==
    LET Mono == 2 - Channel # 0
        Ratio == <<DestRate, SrcRate>>
        up == Ratio[1] > Ratio[2]
        B1 == IF up THEN [B EXCEPT !.fi = @ + 1] ELSE Add(B, "minus5dB")
        dl == doubleLoop(B1, Ratio, Mono)
        hl == halfLoop(dl.B, dl.Ratio, Mono)
        B2 == hl.B
        R2 == hl.Ratio
    IN IF SrcRate < 1 \/ SrcRate > MaxRate \/ DestRate < 1 \/ DestRate > MaxRate
       THEN [B EXCEPT !.fi = -1]
       ELSE IF R2[1] > R2[2]
       THEN [Grow(Add([B2 EXCEPT !.filter = setupVarFilter(R2, Up, g, ph)],
                      IF Mono THEN "varRateUpMono" ELSE "varRateUpStereo"))
                EXCEPT !.add = @ + _fsize]
       ELSE Add([B2 EXCEPT !.filter = setupVarFilter(R2, Down, g, ph)],
                IF Mono THEN "varRateDownMono" ELSE "varRateDownStereo")
createRateConverter_varUpLast(B, SrcRate, DestRate, Channel, g, ph) ==
    LET Mono == 2 - Channel # 0
        Ratio == <<DestRate, SrcRate>>
        up == Ratio[1] > Ratio[2]
        B1 == IF up THEN B ELSE Add(B, "minus5dB")
        dl == doubleLoop(B1, Ratio, Mono)
        hl == halfLoop(dl.B, dl.Ratio, Mono)
        B2 == hl.B
        R2 == hl.Ratio
    IN IF SrcRate < 1 \/ SrcRate > MaxRate \/ DestRate < 1 \/ DestRate > MaxRate
       THEN [B EXCEPT !.fi = -1]
       ELSE IF R2[1] > R2[2]
       THEN [Grow(Add([B2 EXCEPT !.filter = setupVarFilter(R2, Up, g, ph)],
                      IF Mono THEN "varRateUpMono" ELSE "varRateUpStereo"))
                EXCEPT !.add = @ + _fsize]
       ELSE Add([B2 EXCEPT !.filter = setupVarFilter(R2, Down, g, ph)],
                IF Mono THEN "varRateDownMono" ELSE "varRateDownStereo")
createRateConverter(B, SrcRate, DestRate, Channel, g, ph) ==
    LET Mono == 2 - Channel # 0
        Ratio == <<DestRate, SrcRate>>
        up == Ratio[1] > Ratio[2]
        VarPos == IF up THEN B.fi ELSE 0
        B1 == IF up THEN [B EXCEPT !.fi = @ + 1] ELSE Add(B, "minus5dB")
        dl == doubleLoop(B1, Ratio, Mono)
        hl == halfLoop(dl.B, dl.Ratio, Mono)
        B2 == hl.B
        R2 == hl.Ratio
    IN IF SrcRate < 1 \/ SrcRate > MaxRate \/ DestRate < 1 \/ DestRate > MaxRate
       THEN [B EXCEPT !.fi = -1]
       ELSE IF R2[1] > R2[2]
       THEN [Grow([B2 EXCEPT
                      !.filter = setupVarFilter(R2, Up, g, ph),
                      !.adapter = IF VarPos \in Slots
                                  THEN [@ EXCEPT ![VarPos] =
                                           IF Mono THEN "varRateUpMono"
                                           ELSE "varRateUpStereo"]
                                  ELSE @])
                EXCEPT !.add = @ + _fsize]
       ELSE Add([B2 EXCEPT !.filter = setupVarFilter(R2, Down, g, ph)],
                IF Mono THEN "varRateDownMono" ELSE "varRateDownStereo")

createFormatConverter16Bit(B, src, dst, big) ==
    LET B1 == IF src.channels = 2 /\ dst.channels = 1
              THEN LET a == Shrink(B)
                       b == IF ~IS_SYSENDIAN(src, big)
                            THEN Add(a, "swapBytes") ELSE a
                       c == IF IS_SIGNED(src)
                            THEN Add(b, "convertStereoToMonoS16Bit")
                            ELSE Add(b, "convertStereoToMonoU16Bit")
                   IN IF ~IS_SYSENDIAN(dst, big) THEN Add(c, "swapBytes") ELSE c
              ELSE IF IS_SYSENDIAN(src, big) # IS_SYSENDIAN(dst, big)
              THEN Add(B, "swapBytes")
              ELSE B
        B2 == IF IS_SIGNED(src) # IS_SIGNED(dst)
              THEN IF IS_SYSENDIAN(dst, big)
                   THEN Add(B1, "changeSigned16BitSys")
                   ELSE Add(B1, "changeSigned16BitSys")
              ELSE B1
    IN IF src.channels = 1 /\ dst.channels = 2
       THEN Add(Grow(B2), "convertMonoToStereo16Bit")
       ELSE B2

createFormatConverter8Bit_signFirst(B, src, dst, big) ==
    LET B1 == IF IS_16BIT(src)
              THEN IF IS_SYSENDIAN(src, big)
                   THEN Add(Shrink(B), "cut16BitSysTo8Bit")
                   ELSE Add(Shrink(B), "cut16BitWrongTo8Bit")
              ELSE B
        B2 == IF IS_SIGNED(src) # IS_SIGNED(dst)
              THEN Add(B1, "changeSigned8Bit") ELSE B1
        B3 == IF src.channels = 2 /\ dst.channels = 1
              THEN IF IS_SIGNED(src)
                   THEN Add(Shrink(B2), "convertStereoToMonoS8Bit")
                   ELSE Add(Shrink(B2), "convertStereoToMonoU8Bit")
              ELSE B2
        B4 == IF src.channels = 1 /\ dst.channels = 2
              THEN Add(Grow(B3), "convertMonoToStereo8Bit") ELSE B3
    IN IF ~IS_8BIT(dst)
       THEN IF IS_SYSENDIAN(dst, big)
            THEN Add(Grow(B4), "expand8BitTo16BitSys")
            ELSE Add(Grow(B4), "expand8BitTo16BitWrong")
       ELSE B4
createFormatConverter8Bit(B, src, dst, big) ==
    LET B1 == IF IS_16BIT(src)
              THEN IF IS_SYSENDIAN(src, big)
                   THEN Add(Shrink(B), "cut16BitSysTo8Bit")
                   ELSE Add(Shrink(B), "cut16BitWrongTo8Bit")
              ELSE B
        B2 == IF src.channels = 2 /\ dst.channels = 1
              THEN IF IS_SIGNED(src)
                   THEN Add(Shrink(B1), "convertStereoToMonoS8Bit")
                   ELSE Add(Shrink(B1), "convertStereoToMonoU8Bit")
              ELSE B1
        B3 == IF IS_SIGNED(src) # IS_SIGNED(dst)
              THEN Add(B2, "changeSigned8Bit") ELSE B2
        B4 == IF src.channels = 1 /\ dst.channels = 2
              THEN Add(Grow(B3), "convertMonoToStereo8Bit") ELSE B3
    IN IF ~IS_8BIT(dst)
       THEN IF IS_SYSENDIAN(dst, big)
            THEN Add(Grow(B4), "expand8BitTo16BitSys")
            ELSE Add(Grow(B4), "expand8BitTo16BitWrong")
       ELSE B4

createFormatConverter_cutAlways(B, src, dst, big) ==
    LET B1 == IF ~IS_8BIT(src)
              THEN Shrink(Add(B, "cutFloatTo16Bit")) ELSE B
        B2 == IF IS_8BIT(src) \/ IS_8BIT(dst)
              THEN createFormatConverter8Bit(B1, src, dst, big)
              ELSE createFormatConverter16Bit(B1, src, dst, big)
    IN IF IS_FLOAT(dst) THEN Grow(Add(B2, "expand16BitToFloat")) ELSE B2
createFormatConverter(B, src, dst, big) ==
    LET B1 == IF IS_FLOAT(src)
              THEN Shrink(Add(B, "cutFloatTo16Bit")) ELSE B
        B2 == IF IS_8BIT(src) \/ IS_8BIT(dst)
              THEN createFormatConverter8Bit(B1, src, dst, big)
              ELSE createFormatConverter16Bit(B1, src, dst, big)
    IN IF IS_FLOAT(dst) THEN Grow(Add(B2, "expand16BitToFloat")) ELSE B2


(***************************************************************************)
(* BuildAudioCVT on the plan D = [adapter, len_mult, add, filter] the      *)
(* caller passes (Data is not NULL here); g and ph are what the two        *)
(* uninitialised locals of findFraction and setupVarFilter hold.  The      *)
(* result is the plan it leaves and the value it returns.                  *)
(***************************************************************************)
ChannelsBad_srcOnly(src, dst) == src.channels < 1 \/ src.channels > 2
ChannelsBad(src, dst) ==
    src.channels < 1 \/ src.channels > 2 \/ dst.channels < 1 \/ dst.channels > 2

error_exit_keepSlot0(B) ==
    [adapter |-> B.adapter, len_mult |-> B.len_mult,
     add |-> B.add, filter |-> B.filter, ret |-> -1]
\* error_exit: Data->adapter[0] = NULL; return -1
error_exit(B) ==
    [adapter |-> [B.adapter EXCEPT ![0] = NULL], len_mult |-> B.len_mult,
     add |-> B.add, filter |-> B.filter, ret |-> -1]

\* sucess_exit: Data->adapter[filter_index] = NULL; return 0
sucess_exit(B) ==
    [adapter |-> IF B.fi \in Slots THEN [B.adapter EXCEPT ![B.fi] = NULL]
                 ELSE B.adapter,
     len_mult |-> B.len_mult, add |-> B.add, filter |-> B.filter, ret |-> 0]

SameRate(src, dst) == src.freq = dst.freq

BuildAudioCVT(D, src, dst, big, g, ph) ==
    LET B0 == [adapter |-> D.adapter, len_mult |-> <<1, 1>>, add |-> 0,
               filter |-> D.filter, fi |-> 0]
        intrm == [format |-> AUDIO_S16SYS(big),
                  channels |-> min(src.channels, dst.channels),
                  freq |-> 0]
        B1 == createFormatConverter(B0, src, intrm, big)
        B2 == createRateConverter(B1, src.freq, dst.freq,
                  IF src.channels = 2 /\ dst.channels = 2 THEN 2 ELSE 1,
                  g, ph)
    IN IF ChannelsBad(src, dst) THEN error_exit(B0)
       ELSE IF SameRate(src, dst)
       THEN sucess_exit(createFormatConverter(B0, src, dst, big))
       ELSE IF B2.fi < 0 THEN error_exit(B2)
       ELSE sucess_exit(createFormatConverter(B2, intrm, dst, big))

(***************************************************************************)
(* ConvertAudio: c = [i, length] are the loop counter and the running      *)
(* length, m the buffer.  RunStage is one iteration of                     *)
(*   for( i = 0; Data->adapter[i] != NULL; i++ )                           *)
(*       length = Data->adapter[i]( Temp, length );                        *)
(* It returns the new c, the buffer and the record of the stage for the    *)
(* log (ub is recorded for the adapters whose code depends on it).         *)
(***************************************************************************)
UBAdapters ==
    {"convertStereoToMonoS16Bit", "convertStereoToMonoU16Bit",
     "convertStereoToMonoS8Bit", "convertStereoToMonoU8Bit",
     "convertMonoToStereo16Bit", "convertMonoToStereo8Bit"}

RunStage_staleLength(c, m, ad, filter, big, ub) ==
    LET r == Apply(ad[c.i], m, c.length, filter, big, ub)
    IN [c |-> [i |-> c.i + 1, length |-> c.length],
        m |-> r.m,
        entry |-> [idx |-> c.i, adapter |-> ad[c.i], lenIn |-> c.length,
                   lenOut |-> r.len, hi |-> r.hi, calls |-> r.calls,
                   ub |-> IF ad[c.i] \in UBAdapters THEN ub ELSE "seq"]]
RunStage(c, m, ad, filter, big, ub) ==
    LET r == Apply(ad[c.i], m, c.length, filter, big, ub)
    IN [c |-> [i |-> c.i + 1, length |-> r.len],
        m |-> r.m,
        entry |-> [idx |-> c.i, adapter |-> ad[c.i], lenIn |-> c.length,
                   lenOut |-> r.len, hi |-> r.hi, calls |-> r.calls,
                   ub |-> IF ad[c.i] \in UBAdapters THEN ub ELSE "seq"]]

(***************************************************************************)
(* The inputs the model draws.                                             *)
(***************************************************************************)
Formats ==
    {AUDIO_U8, AUDIO_S8, AUDIO_U16LSB, AUDIO_S16LSB, AUDIO_U16MSB,
     AUDIO_S16MSB, AUDIO_F32LSB, AUDIO_F32MSB}
Formats16 == {AUDIO_U16LSB, AUDIO_S16LSB, AUDIO_U16MSB, AUDIO_S16MSB}
\* 0 and MaxRate + 1 lie outside [1, 2^18]
Rates == {0, 8000, 12000, MaxRate + 1}
Descriptors ==
    [format : Formats, channels : 1..MaxChannels, freq : Rates]
\* what an uninitialised local may hold
Garbage == {-1, 3}
\* the 16-bit descriptors of equal rate
Descriptors16 ==
    [format : Formats16, channels : {1, 2}, freq : {8000}]
\* the rates of the plans with rate conversion: 0 and MaxRate + 1 lie outside
\* [1, 2^18], 1 and MaxRate are its ends
RateGrid ==
    {0, 1, 2000, 4000, 8000, 12000, 32000, 44100, 48000, MaxRate, MaxRate + 1}
RateFormats == {AUDIO_U8, AUDIO_S16LSB, AUDIO_S16MSB}
RateDescriptors ==
    [format : RateFormats, channels : 1..MaxChannels, freq : RateGrid]
\* the Values findFraction is called on, the nearest ones outside
\* [31/64, 64/31] included
FracValues ==
    {<<k, FracGrid>> :
        k \in ((31 * FracGrid) \div 64 - 1)..((64 * FracGrid) \div 31 + 1)}
\* what its uninitialised num may hold, and what the read of frac[96] returns
FracGarbage == Garbage \cup {0}
PastTheEnd == {0, 255}

BytesPerSample(format) ==
    IF Bit(format, 8) THEN 1 ELSE IF Bit(format, 16) THEN 2 ELSE 4
FrameSize(d) == BytesPerSample(d.format) * d.channels

\* test samples by width, each sample most significant byte first:
\* 8 bit: 0, 128, 255, 64 / 200, 17, 100, 3
\* 16 bit: 100, 200, -50, 50 / 0x1234, 0x8001, 0x7fff, 0xff00
\* float: 0.5, -0.25, 1.0, 2.0 / 0.0, -1.0, 0.75, -3.0
TestSamples(width) ==
    CASE width = 1 -> << << <<0>>, <<128>>, <<255>>, <<64>> >>,
                         << <<200>>, <<17>>, <<100>>, <<3>> >> >>
      [] width = 2 -> << << <<0, 100>>, <<0, 200>>, <<255, 206>>, <<0, 50>> >>,
                         << <<18, 52>>, <<128, 1>>, <<127, 255>>, <<255, 0>> >> >>
      [] OTHER -> << << <<63, 0, 0, 0>>, <<190, 128, 0, 0>>,
                        <<63, 128, 0, 0>>, <<64, 0, 0, 0>> >>,
                     << <<0, 0, 0, 0>>, <<191, 128, 0, 0>>,
                        <<63, 64, 0, 0>>, <<192, 64, 0, 0>> >> >>

RECURSIVE Reverse(_)
Reverse(q) == IF q = <<>> THEN <<>> ELSE Append(Reverse(Tail(q)), Head(q))

\* a sample as the format stores it
Layout(format, sample) ==
    IF Bit(format, 4096) THEN sample ELSE Reverse(sample)

RECURSIVE Fill(_, _, _, _)
Fill(format, samples, j, n) ==
    IF j >= n THEN <<>>
    ELSE Layout(format, samples[(j % Len(samples)) + 1])
         \o Fill(format, samples, j + 1, n)

\* the buffers a caller loads for the source d
Buffers(d) ==
    { Fill(d.format, TestSamples(BytesPerSample(d.format))[t], 0,
           f * d.channels) : f \in {MaxFrames \div 2, MaxFrames}, t \in 1..2 }

(***************************************************************************)
(* State.                                                                  *)
(***************************************************************************)
VARIABLES
    bigEndian,   \* the machine stores the high byte first
    adapter,     \* Data->adapter
    len_mult,    \* Data->len_mult
    add,         \* Data->add
    filter,      \* Data->filter
    buf,         \* the bytes Data->buf points to
    bufIsNull,   \* Data->buf == NULL
    len,         \* Data->len
    src,         \* the descriptors of the last BuildAudioCVT on Data
    dst,
    bret,        \* what the last BuildAudioCVT returned
    handle,      \* the Data the last Sound_ConvertAudio was given
    pc,          \* "idle", "run" (in ConvertAudio's loop), "done", "crashed"
    c,           \* ConvertAudio's i and length
    cret,        \* what the last Sound_ConvertAudio returned
    nullRead,    \* a field was read through a NULL Data
    log,         \* the stages the running conversion executed
    orig,        \* the bytes the caller loaded
    chain,       \* the plans already run over them
    scan,        \* a call of findFraction on its own: its Value and locals
    rate,        \* a call of createRateConverter step by step: its locals
    other,       \* a second Sound_ConvertAudio on the same Data, with its
                 \* own buffer: its locals, buffer and result
    wav          \* a call of the WAV decoder's find_chunk: the stream rw
                 \* and the call's id, _id and siz

cvtVars ==
    <<bigEndian, adapter, len_mult, add, filter, buf, bufIsNull, len, src,
      dst, bret, handle, pc, c, cret, nullRead, log, orig, chain>>
vars == <<cvtVars, scan, rate, other, wav>>

NoSpec == [format |-> 0, channels |-> 0, freq |-> 0]

InitCvt ==
    /\ bigEndian \in BOOLEAN
    /\ adapter = [s \in Slots |-> UNSET]
    /\ len_mult = <<1, 1>>
    /\ add = 0
    /\ filter = [pos_mod |-> 0, incr |-> <<>>, numerator |-> 0,
                 denominator |-> 0]
    /\ buf = <<>>
    /\ bufIsNull = TRUE
    /\ len = 0
    /\ src = NoSpec
    /\ dst = NoSpec
    /\ bret = NoResult
    /\ handle = "cvt"
    /\ pc = "idle"
    /\ c = [i |-> 0, length |-> 0]
    /\ cret = NoResult
    /\ nullRead = FALSE
    /\ log = <<>>
    /\ orig = <<>>
    /\ chain = <<>>

NoScan == [pc |-> "off", Value |-> <<1, 1>>, s |-> FracStart(0)]
NoRate ==
    [pc |-> "off", SrcRate |-> 0, DestRate |-> 0, Mono |-> FALSE,
     Ratio |-> <<1, 1>>, fi |-> 0, VarPos |-> 0, g |-> 0]
NoOther ==
    [pc |-> "off", c |-> [i |-> 0, length |-> 0], buf |-> <<>>,
     orig |-> <<>>, cret |-> NoResult, ubs |-> <<>>, mixed |-> FALSE]
NoWav ==
    [pc |-> "off", rw |-> [data |-> <<>>, pos |-> 0], id |-> 0, _id |-> 0,
     siz |-> 0, NDEBUG |-> FALSE, ret |-> NoResult, rejected |-> {},
     again |-> FALSE]

Init ==
    /\ InitCvt
    /\ scan = NoScan
    /\ rate = NoRate
    /\ other = NoOther
    /\ wav = NoWav


(***************************************************************************)
(* Actions.                                                                *)
(***************************************************************************)
\* BuildAudioCVT( Data, s, d ) on a fresh Data
Build(s, d, g, ph) ==
    /\ pc = "idle"
    /\ bret = NoResult
    /\ \E r \in {BuildAudioCVT([adapter |-> adapter, len_mult |-> len_mult,
                                add |-> add, filter |-> filter],
                               s, d, bigEndian, g, ph)} :
          /\ adapter' = r.adapter
          /\ len_mult' = r.len_mult
          /\ add' = r.add
          /\ filter' = r.filter
          /\ bret' = r.ret
    /\ src' = s
    /\ dst' = d
    /\ UNCHANGED <<bigEndian, buf, bufIsNull, len, handle, pc, c, cret,
                   nullRead, log, orig, chain, scan, rate,
                   other, wav>>

\* BuildAudioCVT( NULL, ... ): if( Data == NULL ) return -1
BuildNull ==
    /\ pc = "idle"
    /\ bret = NoResult
    /\ bret' = -1
    /\ UNCHANGED <<bigEndian, adapter, len_mult, add, filter, buf, bufIsNull,
                   len, src, dst, handle, pc, c, cret, nullRead, log, orig,
                   chain, scan, rate,
                   other, wav>>

\* the caller points Data->buf at b and sets Data->len
LoadBuffer(b) ==
    /\ pc = "idle"
    /\ bret = 0
    /\ bufIsNull
    /\ buf' = b
    /\ bufIsNull' = FALSE
    /\ len' = Len(b)
    /\ orig' = b
    /\ UNCHANGED <<bigEndian, adapter, len_mult, add, filter, src, dst, bret,
                   handle, pc, c, cret, nullRead, log, chain, scan, rate,
                   other, wav>>

\* Sound_ConvertAudio( NULL ): Data->buf and Data->len are read to form the
\* arguments of ConvertAudio before ConvertAudio tests Data.  The read
\* through NULL is undefined: the process faults, or the read yields
\* something and ConvertAudio returns -1.
ConvertNull ==
    /\ pc = "idle"
    /\ bret # NoResult
    /\ handle' = NULL
    /\ nullRead' = TRUE
    /\ \/ /\ pc' = "crashed"
          /\ cret' = cret
       \/ /\ pc' = "done"
          /\ cret' = -1
    /\ log' = <<>>
    /\ UNCHANGED <<bigEndian, adapter, len_mult, add, filter, buf, bufIsNull,
                   len, src, dst, bret, c, orig, chain, scan, rate,
                   other, wav>>

\* Sound_ConvertAudio( Data ) up to the loop of ConvertAudio
ConvertCall ==
    /\ pc = "idle"
    /\ bret # NoResult
    /\ handle' = "cvt"
    /\ log' = <<>>
    /\ IF bufIsNull
       THEN /\ pc' = "done"
            /\ cret' = -1
            /\ c' = c
       ELSE /\ pc' = "run"
            /\ cret' = cret
            /\ c' = [i |-> 0, length |-> len]
    /\ UNCHANGED <<bigEndian, adapter, len_mult, add, filter, buf, bufIsNull,
                   len, src, dst, bret, nullRead, orig, chain, scan, rate,
                   other, wav>>

\* one iteration of the loop
ConvertStage(ub) ==
    /\ pc = "run"
    /\ c.i \in Slots
    /\ adapter[c.i] \notin {NULL, UNSET}
    /\ \E r \in {RunStage(c, buf, adapter, filter, bigEndian, ub)} :
          /\ c' = r.c
          /\ buf' = r.m
          /\ log' = Append(log, r.entry)
    /\ UNCHANGED <<bigEndian, adapter, len_mult, add, filter, bufIsNull, len,
                   src, dst, bret, handle, pc, cret, nullRead, orig, chain,
                   scan, rate,
                   other, wav>>

\* the loop meets the NULL adapter: return length
ConvertReturn ==
    /\ pc = "run"
    /\ c.i \in Slots
    /\ adapter[c.i] = NULL
    /\ cret' = c.length
    /\ pc' = "done"
    /\ chain' = Append(chain, [src |-> src, dst |-> dst])
    /\ UNCHANGED <<bigEndian, adapter, len_mult, add, filter, buf, bufIsNull,
                   len, src, dst, bret, handle, c, nullRead, log, orig, scan, rate,
                   other, wav>>

Next ==
    \/ /\ bret = NoResult
       /\ \E s \in Descriptors, d \in Descriptors, g \in Garbage,
             ph \in Garbage : Build(s, d, g, ph)
    \/ BuildNull
    \/ /\ bret = 0
       /\ \E b \in Buffers(src) : LoadBuffer(b)
    \/ ConvertNull
    \/ ConvertCall
    \/ \E ub \in UBChoices : ConvertStage(ub)
    \/ ConvertReturn

Spec == Init /\ [][Next]_vars

(***************************************************************************)
(* Round trips: after a run of the plan src -> dst the caller builds the   *)
(* plan dst -> src on the same Data and runs it over the converted bytes.  *)
(***************************************************************************)
ReversePlan ==
    /\ pc = "done"
    /\ handle = "cvt"
    /\ ~bufIsNull
    /\ bret = 0
    /\ Len(chain) = 1
    /\ \E r \in {BuildAudioCVT([adapter |-> adapter, len_mult |-> len_mult,
                                add |-> add, filter |-> filter],
                               dst, src, bigEndian, 0, 0)} :
          /\ adapter' = r.adapter
          /\ len_mult' = r.len_mult
          /\ add' = r.add
          /\ filter' = r.filter
          /\ bret' = r.ret
    /\ src' = dst
    /\ dst' = src
    /\ len' = cret
    /\ pc' = "idle"
    /\ UNCHANGED <<bigEndian, buf, bufIsNull, handle, c, cret, nullRead, log,
                   orig, chain, scan, rate,
                   other, wav>>

NextChain ==
    \/ /\ bret = NoResult
       /\ \E s \in Descriptors16, d \in Descriptors16 : Build(s, d, 0, 0)
    \/ /\ bret = 0
       /\ \E b \in Buffers(src) : LoadBuffer(b)
    \/ ConvertCall
    \/ \E ub \in UBChoices : ConvertStage(ub)
    \/ ConvertReturn
    \/ ReversePlan

SpecChain == Init /\ [][NextChain]_vars

(***************************************************************************)
(* Plans with rate conversion.  A plan between two descriptors of signed   *)
(* 16 bit in the machine's byte order is also run, when its rates are at   *)
(* most a factor 16 apart.  The two uninitialised locals hold the same     *)
(* garbage here; Spec draws them independently.                            *)
(***************************************************************************)
Runnable ==
    /\ src.format = AUDIO_S16SYS(bigEndian)
    /\ dst.format = AUDIO_S16SYS(bigEndian)
    /\ src.freq <= 16 * dst.freq
    /\ dst.freq <= 16 * src.freq

NextRate ==
    \/ /\ bret = NoResult
       /\ \E s \in RateDescriptors, d \in RateDescriptors, g \in Garbage :
             Build(s, d, g, g)
    \/ /\ bret = 0
       /\ Runnable
       /\ \E b \in Buffers(src) : LoadBuffer(b)
    \/ /\ ~bufIsNull
       /\ ConvertCall
    \/ \E ub \in UBChoices : ConvertStage(ub)
    \/ ConvertReturn

SpecRate == Init /\ [][NextRate]_vars

(***************************************************************************)
(* findFraction on its own, one loop iteration per step.                   *)
(***************************************************************************)
InitFrac ==
    /\ InitCvt
    /\ scan \in {[pc |-> "call", Value |-> v, s |-> FracStart(g)] :
                    v \in FracValues, g \in FracGarbage}
    /\ rate = NoRate
    /\ other = NoOther
    /\ wav = NoWav

\* if( Value < 31/64. || Value > 64/31. ) return Result
FracReject ==
    /\ scan.pc = "call"
    /\ OutOfRange(scan.Value)
    /\ scan' = [scan EXCEPT !.pc = "ret"]
    /\ UNCHANGED <<cvtVars, rate, other, wav>>

FracEnter ==
    /\ scan.pc = "call"
    /\ ~OutOfRange(scan.Value)
    /\ scan' = [scan EXCEPT !.pc = "loop"]
    /\ UNCHANGED <<cvtVars, rate, other, wav>>

FracIter(o) ==
    /\ scan.pc = "loop"
    /\ scan.s.n < Len(frac)
    /\ scan' = [scan EXCEPT !.s = FracStep(scan.Value, scan.s, o)]
    /\ UNCHANGED <<cvtVars, rate, other, wav>>

FracReturn ==
    /\ scan.pc = "loop"
    /\ scan.s.n >= Len(frac)
    /\ scan' = [scan EXCEPT !.pc = "ret"]
    /\ UNCHANGED <<cvtVars, rate, other, wav>>

NextFrac ==
    \/ FracReject
    \/ FracEnter
    \/ \E o \in PastTheEnd : FracIter(o)
    \/ FracReturn

SpecFrac == InitFrac /\ [][NextFrac]_vars


(***************************************************************************)
(* Two executions of ConvertAudio on the same Data.  The first is the one  *)
(* of ConvertCall, ConvertStage and ConvertReturn, on the buffer buf.  The *)
(* second, other, is a call ConvertAudio( Data, b, Len(b), 0 ) with        *)
(* another buffer: other.c holds its locals i and length, other.buf the    *)
(* memory of its buffer.  other.ubs records how the unsequenced            *)
(* expressions of its stages came out, other.mixed that one of its stages  *)
(* ran between two stages of the first execution.                          *)
(***************************************************************************)
ShareDescriptors ==
    [format : {AUDIO_U8, AUDIO_S16LSB}, channels : {1, 2}, freq : {8000}]
        \cup [format : {AUDIO_S16LSB}, channels : {1}, freq : {12000}]

\* AdapterC Temp; int i: every call has its own
OtherLocals_shared == c
OtherLocals == other.c

OtherCall(b) ==
    /\ other.pc = "off"
    /\ bret = 0
    /\ other' = [pc |-> "run", c |-> [i |-> 0, length |-> Len(b)], buf |-> b,
                 orig |-> b, cret |-> NoResult, ubs |-> <<>>,
                 mixed |-> FALSE]
    /\ UNCHANGED <<cvtVars, scan, rate, wav>>

OtherStage(ub) ==
    /\ other.pc = "run"
    /\ OtherLocals.i \in Slots
    /\ adapter[OtherLocals.i] \notin {NULL, UNSET}
    /\ \E r \in {RunStage(OtherLocals, other.buf, adapter, filter, bigEndian,
                          ub)} :
          other' = [other EXCEPT
                       !.c = r.c,
                       !.buf = r.m,
                       !.ubs = Append(@, r.entry.ub),
                       !.mixed = @ \/ (/\ pc = "run"
                                       /\ c.i \in Slots \ {0}
                                       /\ adapter[c.i] # NULL)]
    /\ UNCHANGED <<cvtVars, scan, rate, wav>>

OtherReturn ==
    /\ other.pc = "run"
    /\ OtherLocals.i \in Slots
    /\ adapter[OtherLocals.i] = NULL
    /\ other' = [other EXCEPT !.pc = "done", !.cret = OtherLocals.length]
    /\ UNCHANGED <<cvtVars, scan, rate, wav>>

NextShare ==
    \/ /\ bret = NoResult
       /\ \E s \in ShareDescriptors, d \in ShareDescriptors : Build(s, d, 0, 0)
    \/ /\ bret = 0
       /\ \E b \in Buffers(src) : LoadBuffer(b)
    \/ /\ ~bufIsNull
       /\ ConvertCall
    \/ \E ub \in UBChoices : ConvertStage(ub)
    \/ ConvertReturn
    \/ /\ ~bufIsNull
       /\ \E b \in {x \in Buffers(src) : Len(x) # Len(orig)} : OtherCall(b)
    \/ \E ub \in UBChoices : OtherStage(ub)
    \/ OtherReturn

SpecShare == Init /\ [][NextShare]_vars

(***************************************************************************)
(* The channel adapters on their own: the plans between two descriptors of *)
(* the same integer format and rate that differ in the channel count, run  *)
(* over the usual buffers and over single frames of extreme sample values. *)
(***************************************************************************)
MixDescriptors ==
    [format : {AUDIO_U8, AUDIO_S8} \cup Formats16, channels : {1, 2},
     freq : {8000}]

Edge8 == {0, 1, 127, 128, 255}
Edge16 == {<<0, 0>>, <<0, 1>>, <<127, 255>>, <<128, 0>>, <<255, 255>>}

\* one frame for the source d, each sample most significant byte first
EdgeFrames(d) ==
    IF IS_8BIT(d)
    THEN IF d.channels = 2 THEN {<<a, b>> : a \in Edge8, b \in Edge8}
         ELSE {<<a>> : a \in Edge8}
    ELSE IF d.channels = 2
         THEN {Layout(d.format, a) \o Layout(d.format, b) :
                  a \in Edge16, b \in Edge16}
         ELSE {Layout(d.format, a) : a \in Edge16}

NextMix ==
    \/ /\ bret = NoResult
       /\ \E s \in MixDescriptors, d \in MixDescriptors :
             /\ s.format = d.format
             /\ s.channels # d.channels
             /\ Build(s, d, 0, 0)
    \/ /\ bret = 0
       /\ \E b \in Buffers(src) \cup EdgeFrames(src) : LoadBuffer(b)
    \/ /\ ~bufIsNull
       /\ ConvertCall
    \/ \E ub \in UBChoices : ConvertStage(ub)
    \/ ConvertReturn

SpecMix == Init /\ [][NextMix]_vars

(***************************************************************************)
(* createRateConverter, statement by statement.  rate holds its locals     *)
(* (Ratio as the exact fraction, filter_index as fi, VarPos) and the       *)
(* value g that the uninitialised locals of the filter setup hold; the     *)
(* plan is written to adapter, len_mult, add and filter.  The function is  *)
(* called for differing rates only.                                        *)
(***************************************************************************)
LoopRates ==
    {0, 1, 2, 3, 31, 63, 64, 65, 2000, 8000, 11025, 44100, 48000,
     131071, 131072, MaxRate - 1, MaxRate, MaxRate + 1}

runVars ==
    <<bigEndian, buf, bufIsNull, len, src, dst, bret, handle, pc, c, cret,
      nullRead, log, orig, chain>>

Data ==
    [adapter |-> adapter, len_mult |-> len_mult, add |-> add,
     filter |-> filter, fi |-> rate.fi]

Store(B) ==
    /\ adapter' = B.adapter
    /\ len_mult' = B.len_mult
    /\ add' = B.add
    /\ filter' = B.filter

InitLoop ==
    /\ InitCvt
    /\ scan = NoScan
    /\ other = NoOther
    /\ wav = NoWav
    /\ rate = NoRate

\* the call: float Ratio = DestRate; the caller passes differing rates
RateCall(SrcRate, DestRate, Mono, g) ==
    /\ rate.pc = "off"
    /\ SrcRate # DestRate
    /\ rate' = [pc |-> "entry", SrcRate |-> SrcRate, DestRate |-> DestRate,
                Mono |-> Mono, Ratio |-> <<DestRate, 1>>, fi |-> 0,
                VarPos |-> 0, g |-> g]
    /\ UNCHANGED <<cvtVars, scan, other, wav>>

RateBad(r) ==
    r.SrcRate < 1 \/ r.SrcRate > MaxRate \/ r.DestRate < 1 \/ r.DestRate > MaxRate

\* *fip = -1; if( SrcRate < 1 || ... ) return
RateReject ==
    /\ rate.pc = "entry"
    /\ RateBad(rate)
    /\ rate' = [rate EXCEPT !.pc = "ret", !.fi = -1]
    /\ UNCHANGED <<cvtVars, scan, other, wav>>

\* Ratio /= SrcRate
RateEnter ==
    /\ rate.pc = "entry"
    /\ ~RateBad(rate)
    /\ rate' = [rate EXCEPT !.pc = "first",
                            !.Ratio = <<rate.DestRate, rate.SrcRate>>]
    /\ UNCHANGED <<cvtVars, scan, other, wav>>

\* if( Ratio > 1.) VarPos = filter_index++;
\* else Data->adapter[filter_index++] = minus5dB
RateFirst ==
    /\ rate.pc = "first"
    /\ IF rate.Ratio[1] > rate.Ratio[2]
       THEN /\ rate' = [rate EXCEPT !.pc = "double", !.VarPos = rate.fi,
                                    !.fi = @ + 1]
            /\ UNCHANGED <<adapter, len_mult, add, filter>>
       ELSE /\ Store(Add(Data, "minus5dB"))
            /\ rate' = [rate EXCEPT !.pc = "double", !.fi = @ + 1]
    /\ UNCHANGED <<runVars, scan, other, wav>>

DoubleStep ==
    /\ rate.pc = "double"
    /\ MoreDoubling(rate.Ratio)
    /\ Store([Grow(Add(Data, IF rate.Mono THEN "doubleRateMono"
                             ELSE "doubleRateStereo"))
                 EXCEPT !.add = @ + _fsize])
    /\ rate' = [rate EXCEPT !.Ratio = Half(@), !.fi = @ + 1]
    /\ UNCHANGED <<runVars, scan, other, wav>>

DoubleExit ==
    /\ rate.pc = "double"
    /\ ~MoreDoubling(rate.Ratio)
    /\ rate' = [rate EXCEPT !.pc = "half"]
    /\ UNCHANGED <<cvtVars, scan, other, wav>>

HalfStep ==
    /\ rate.pc = "half"
    /\ MoreHalving(rate.Ratio)
    /\ Store(Add(Data, IF rate.Mono THEN "halfRateMono" ELSE "halfRateStereo"))
    /\ rate' = [rate EXCEPT !.Ratio = Twice(@), !.fi = @ + 1]
    /\ UNCHANGED <<runVars, scan, other, wav>>

HalfExit ==
    /\ rate.pc = "half"
    /\ ~MoreHalving(rate.Ratio)
    /\ rate' = [rate EXCEPT !.pc = "setup"]
    /\ UNCHANGED <<cvtVars, scan, other, wav>>

\* the final if( Ratio > 1. ) ... else ...; *fip = filter_index
RateSetup ==
    /\ rate.pc = "setup"
    /\ IF rate.Ratio[1] > rate.Ratio[2]
       THEN /\ Store([Grow([Data EXCEPT
                         !.filter = setupVarFilter(rate.Ratio, Up, rate.g,
                                                   rate.g),
                         !.adapter = [@ EXCEPT ![rate.VarPos] =
                                         IF rate.Mono THEN "varRateUpMono"
                                         ELSE "varRateUpStereo"]])
                         EXCEPT !.add = @ + _fsize])
            /\ rate' = [rate EXCEPT !.pc = "ret"]
       ELSE /\ Store(Add([Data EXCEPT
                         !.filter = setupVarFilter(rate.Ratio, Down, rate.g,
                                                   rate.g)],
                         IF rate.Mono THEN "varRateDownMono"
                         ELSE "varRateDownStereo"))
            /\ rate' = [rate EXCEPT !.pc = "ret", !.fi = @ + 1]
    /\ UNCHANGED <<runVars, scan, other, wav>>

\* the steps up to the end of the two loops
LoopSteps ==
    \/ /\ rate.pc = "off"
       /\ \E s \in LoopRates, d \in LoopRates, m \in BOOLEAN, g \in Garbage :
             RateCall(s, d, m, g)
    \/ RateReject
    \/ RateEnter
    \/ RateFirst
    \/ DoubleStep
    \/ DoubleExit
    \/ HalfStep
    \/ HalfExit

NextLoop ==
    \/ LoopSteps
    \/ RateSetup

\* the function runs in one thread: a statement of the loops that can be
\* executed is executed
SpecLoop == InitLoop /\ [][NextLoop]_vars /\ WF_vars(LoopSteps)


(***************************************************************************)
(* Vocabulary of the properties.                                           *)
(***************************************************************************)
RateInRange(r) == 1 <= r /\ r <= MaxRate
ValidDescriptor(d) == d.channels \in {1, 2} /\ RateInRange(d.freq)
\* a run of the plan on a loaded buffer has returned
Ran == pc = "done" /\ handle = "cvt" /\ ~bufIsNull
\* ceil( length * len_mult ) + add
WriteBound(length) ==
    (length * len_mult[1] + len_mult[2] - 1) \div len_mult[2] + add
\* the 16-bit sample i of the buffer, read in the machine's byte order
Sample16(m, i) == ToS16(Rd16(m, i, bigEndian))

(***************************************************************************)
(* C1: for a valid descriptor pair and a whole number of source frames, no *)
(* stage of a run writes a byte at an offset >= ceil(len * len_mult) + add.*)
(* Stated for the plans without rate conversion, whose adapters are all in *)
(* alt_audio_convert.c.                                                    *)
(***************************************************************************)
C1_WritesWithinBound ==
    (/\ pc \in {"run", "done"}
     /\ bret = 0
     /\ ValidDescriptor(src) /\ ValidDescriptor(dst)
     /\ src.freq = dst.freq)
    => \A k \in 1..Len(log) : log[k].hi <= WriteBound(len)

(***************************************************************************)
(* C2: BuildAudioCVT returns -1 whenever the source or the destination     *)
(* channel count is outside {1, 2}, whatever the formats and rates.        *)
(***************************************************************************)
C2_BadChannelsFail ==
    (bret # NoResult /\ (src.channels \notin {1, 2} \/ dst.channels \notin {1, 2}))
    => bret = -1

C2_Witness ==
    /\ bret = -1
    /\ src.channels = 1
    /\ dst.channels = 3
    /\ src.freq = 8000
    /\ dst.freq = 8000

(***************************************************************************)
(* C3: BuildAudioCVT returns -1 whenever the source rate or the            *)
(* destination rate is outside [1, 2^18], equal rates included.            *)
(***************************************************************************)
C3_BadRatesFail ==
    (/\ bret # NoResult
     /\ src.channels \in {1, 2}
     /\ dst.channels \in {1, 2}
     /\ (~RateInRange(src.freq) \/ ~RateInRange(dst.freq)))
    => bret = -1

(***************************************************************************)
(* C4: Sound_ConvertAudio returns -1 for an absent plan and for an absent  *)
(* buffer, runs no adapter, and reads nothing through the absent plan.     *)
(***************************************************************************)
C4_AbsentIsOrdinaryError ==
    /\ (pc \in {"done", "crashed"} /\ handle = NULL)
       => (pc = "done" /\ cret = -1 /\ log = <<>> /\ ~nullRead)
    /\ (pc \in {"done", "crashed"} /\ handle = "cvt" /\ bufIsNull)
       => (pc = "done" /\ cret = -1 /\ log = <<>> /\ ~nullRead)

(***************************************************************************)
(* C5: a run executes the stages 0, 1, ... in order up to the first NULL   *)
(* adapter, hands stage 0 the caller's length and stage k+1 the length     *)
(* stage k returned, and returns the last stage's length (the caller's     *)
(* length when there is no stage).                                         *)
(***************************************************************************)
C5_StagesInOrder ==
    (pc \in {"run", "done"} /\ handle = "cvt" /\ ~bufIsNull)
    => /\ \A k \in 1..Len(log) :
              /\ log[k].idx = k - 1
              /\ log[k].adapter = adapter[k - 1]
              /\ log[k].adapter # NULL
              /\ log[k].lenIn = IF k = 1 THEN len ELSE log[k - 1].lenOut
       /\ pc = "done"
          => /\ adapter[Len(log)] = NULL
             /\ cret = IF log = <<>> THEN len ELSE log[Len(log)].lenOut

C5_Witness ==
    /\ Ran
    /\ Len(log) >= 3
    /\ log[1].lenOut # log[1].lenIn
    /\ log[2].lenIn = log[1].lenOut
    /\ cret = log[Len(log)].lenOut
    /\ cret # len

(***************************************************************************)
(* C6: the plan BuildAudioCVT(d, d) of a valid descriptor d, floating      *)
(* point included, returns the input length and leaves every byte of a     *)
(* frame-aligned buffer as it was.                                         *)
(***************************************************************************)
C6_IdentityAnyFormat ==
    (Ran /\ bret = 0 /\ src = dst /\ ValidDescriptor(src))
    => (cret = len /\ buf = orig)

(***************************************************************************)
(* C6 (amended): the plan BuildAudioCVT(d, d) of a valid 8-bit or 16-bit   *)
(* integer descriptor d has no stage; its run returns the input length     *)
(* and leaves every byte as it was.                                        *)
(***************************************************************************)
C6_IdentityInteger ==
    (/\ bret = 0
     /\ src = dst
     /\ ValidDescriptor(src)
     /\ ~IS_FLOAT(src))
    => /\ adapter[0] = NULL
       /\ Ran => (cret = len /\ buf = orig /\ log = <<>>)

C6_Witness ==
    /\ Ran
    /\ bret = 0
    /\ src = dst
    /\ src.format = AUDIO_S16MSB
    /\ src.channels = 2
    /\ src.freq = 12000
    /\ len = 4 * MaxFrames
    /\ cret = len
    /\ buf = orig

(***************************************************************************)
(* C8: unsigned 8 bit to signed 16 bit of the machine's byte order, same   *)
(* channel count and rate: the plan is the 8-bit sign change followed by   *)
(* the width expansion, and sample v becomes (v - 128) << 8.               *)
(***************************************************************************)
C8_U8ToS16Native ==
    (/\ Ran
     /\ bret = 0
     /\ src.format = AUDIO_U8
     /\ dst.format = AUDIO_S16SYS(bigEndian)
     /\ src.channels = dst.channels
     /\ src.freq = dst.freq
     /\ ValidDescriptor(src))
    => /\ Len(log) = 2
       /\ log[1].adapter = "changeSigned8Bit"
       /\ log[2].adapter = "expand8BitTo16BitSys"
       /\ cret = 2 * len
       /\ \A i \in 0..(len - 1) : Sample16(buf, i) = (orig[i + 1] - 128) * 256

(***************************************************************************)
(* C9: signed 16 bit stereo to signed 16 bit mono, both of the machine's   *)
(* byte order, same rate: the plan is the one stage                        *)
(* convertStereoToMonoS16Bit and frame (l, r) becomes (l + r) >> 1.        *)
(***************************************************************************)
C9_S16StereoToMonoNative ==
    (/\ Ran
     /\ bret = 0
     /\ src.format = AUDIO_S16SYS(bigEndian)
     /\ dst.format = AUDIO_S16SYS(bigEndian)
     /\ src.channels = 2
     /\ dst.channels = 1
     /\ src.freq = dst.freq
     /\ RateInRange(src.freq))
    => /\ Len(log) = 1
       /\ log[1].adapter = "convertStereoToMonoS16Bit"
       /\ cret = len \div 2
       /\ \A i \in 0..((len \div 4) - 1) :
              Sample16(buf, i) =
                  (Sample16(orig, 2 * i) + Sample16(orig, 2 * i + 1)) \div 2

(***************************************************************************)
(* C7: for two 16-bit integer descriptors A and B of equal rate, running   *)
(* the plan A -> B and then the plan B -> A over a frame-aligned buffer    *)
(* gives back the original length and bytes.  Stated for A and B of the    *)
(* same channel count, where no stage averages or duplicates a channel.    *)
(***************************************************************************)
C7_RoundTrip16 ==
    (/\ Ran
     /\ Len(chain) = 2
     /\ chain[1].src = chain[2].dst
     /\ chain[1].dst = chain[2].src
     /\ chain[1].src.channels = chain[1].dst.channels)
    => /\ cret = Len(orig)
       /\ SubSeq(buf, 1, Len(orig)) = orig

(***************************************************************************)
(* C10: for a ratio R in [31/64, 64/31] findFraction returns a fraction    *)
(* with 1 <= denominator <= 16 and within 3% of R.  The loop scores a      *)
(* candidate by Value * num / den, so the fraction is accepted here when   *)
(* num / den is within 3% of R or of 1 / R.                                *)
(***************************************************************************)
Within3Percent(a, b) == 97 * b <= 100 * a /\ 100 * a <= 103 * b

C10_FractionWithin3Percent ==
    (scan.pc = "ret" /\ ~OutOfRange(scan.Value))
    => LET num == scan.s.Result.numerator
           den == scan.s.Result.denominator
           R == scan.Value
       IN /\ 1 <= den
          /\ den <= 16
          /\ \/ Within3Percent(num * R[2], den * R[1])
             \/ Within3Percent(num * R[1], den * R[2])

(***************************************************************************)
(* Vocabulary of the properties on plans with rate conversion.             *)
(***************************************************************************)
\* the stages of the plan: the adapters in front of the first NULL
RECURSIVE PlanFrom(_)
PlanFrom(i) ==
    IF i \notin Slots \/ adapter[i] = NULL THEN <<>>
    ELSE <<adapter[i]>> \o PlanFrom(i + 1)
Plan == PlanFrom(0)

HalfBand ==
    {"doubleRateMono", "doubleRateStereo", "halfRateMono", "halfRateStereo"}
VarRateUp == {"varRateUpMono", "varRateUpStereo"}
VarRateDown == {"varRateDownMono", "varRateDownStereo"}
VarRate == VarRateUp \cup VarRateDown
Count(q, S) == Cardinality({k \in 1..Len(q) : q[k] \in S})

\* a successful build between two descriptors of the same signed 16-bit
\* format in the machine's byte order, with the same channel count
BuiltSameS16 ==
    /\ bret = 0
    /\ src.format = AUDIO_S16SYS(bigEndian)
    /\ dst.format = src.format
    /\ dst.channels = src.channels
    /\ ValidDescriptor(src)
    /\ ValidDescriptor(dst)

(***************************************************************************)
(* C12: destination rate 4 times the source rate, same signed 16-bit       *)
(* native mono format: the plan is exactly two rate-doubling stages and    *)
(* has no variable-rate stage.                                             *)
(***************************************************************************)
C12_RatioFourTwoDoublings ==
    (BuiltSameS16 /\ src.channels = 1 /\ dst.freq = 4 * src.freq)
    => Plan = <<"doubleRateMono", "doubleRateMono">>

(***************************************************************************)
(* C12 (amended): destination rate 4 times the source rate, same signed    *)
(* 16-bit native mono format: the plan is the up-direction variable-rate   *)
(* stage followed by one rate-doubling stage; the doubling loop stops at   *)
(* the residual ratio 2, which the variable-rate filter is set up for.     *)
(***************************************************************************)
C12_RatioFourPlan ==
    (BuiltSameS16 /\ src.channels = 1 /\ dst.freq = 4 * src.freq)
    => Plan = <<"varRateUpMono", "doubleRateMono">>

C12_Witness ==
    /\ BuiltSameS16
    /\ src.channels = 1
    /\ src.freq = 8000
    /\ dst.freq = 32000
    /\ Plan = <<"varRateUpMono", "doubleRateMono">>

(***************************************************************************)
(* C13: destination rate 4 times the source rate, same signed 16-bit       *)
(* native mono format: the plan's len_mult is exactly 4 and its add is     *)
(* greater than 0.                                                         *)
(***************************************************************************)
C13_RatioFourMultiplier ==
    (BuiltSameS16 /\ src.channels = 1 /\ dst.freq = 4 * src.freq)
    => (len_mult[1] = 4 * len_mult[2] /\ add > 0)

C13_Witness ==
    /\ BuiltSameS16
    /\ src.channels = 1
    /\ src.freq = 8000
    /\ dst.freq = 32000
    /\ len_mult = <<4, 1>>
    /\ add = 3 * _fsize

(***************************************************************************)
(* C14: for 1 < dst/src <= 64/31 and identical signed 16-bit native        *)
(* formats, the plan has exactly one rate-changing stage, the up-direction *)
(* variable-rate stage (mono or stereo), and no doubling, halving or       *)
(* minus5dB stage.                                                         *)
(***************************************************************************)
C14_SingleVarRateUp ==
    (/\ BuiltSameS16
     /\ dst.freq > src.freq
     /\ 31 * dst.freq <= 64 * src.freq)
    => Plan = <<IF src.channels = 1 THEN "varRateUpMono"
                ELSE "varRateUpStereo">>

C14_Witness ==
    /\ BuiltSameS16
    /\ src.channels = 2
    /\ src.freq = 44100
    /\ dst.freq = 48000
    /\ Plan = <<"varRateUpStereo">>
    /\ len_mult = <<2, 1>>

(***************************************************************************)
(* C16: after a failing BuildAudioCVT (bad channel count, or a rate out of *)
(* range found by createRateConverter) the plan has no stage and its       *)
(* len_mult and add are the initial 1.0 and 0.                             *)
(***************************************************************************)
C16_FailedBuildReset ==
    (bret = -1 /\ src # NoSpec)
    => (Plan = <<>> /\ len_mult = <<1, 1>> /\ add = 0)

(***************************************************************************)
(* C16 (amended): after a failing BuildAudioCVT the plan has no stage (the *)
(* NULL is in slot 0) and add is 0; len_mult is 1.0 after a bad channel    *)
(* count, and after a rate out of range it is what the conversion of the   *)
(* 8-bit or 16-bit source to the intermediate format left: 1, 2 or 1/2.    *)
(***************************************************************************)
C16_FailedBuildEmptyPlan ==
    (bret = -1 /\ src # NoSpec)
    => /\ adapter[0] = NULL
       /\ add = 0
       /\ len_mult \in {<<1, 1>>, <<2, 1>>, <<1, 2>>}
       /\ (src.channels \notin {1, 2} \/ dst.channels \notin {1, 2})
          => len_mult = <<1, 1>>

C16_Witness ==
    /\ bret = -1
    /\ src.format = AUDIO_U8
    /\ src.channels = 1
    /\ dst.channels = 1
    /\ src.freq = 0
    /\ dst.freq = 8000
    /\ adapter[0] = NULL
    /\ adapter[1] \notin {NULL, UNSET}
    /\ len_mult = <<2, 1>>

(***************************************************************************)
(* C17: after a successful BuildAudioCVT for channel counts in {1, 2} and  *)
(* rates in [1, 2^18] the plan is well formed: n <= 31 stages in slots     *)
(* 0..n-1, each an adapter this build assigned (none unset, the slot       *)
(* reserved for the up-direction variable-rate stage included), and the    *)
(* NULL in slot n.                                                         *)
(***************************************************************************)
C17_PlanWellFormed ==
    (bret = 0 /\ ValidDescriptor(src) /\ ValidDescriptor(dst))
    => \E n \in 0..(AdapterSlots - 1) :
          /\ adapter[n] = NULL
          /\ \A k \in 0..(n - 1) : adapter[k] \notin {NULL, UNSET}

C17_Witness ==
    /\ bret = 0
    /\ src.format = AUDIO_U8
    /\ dst.format = AUDIO_U8
    /\ src.channels = 1
    /\ dst.channels = 2
    /\ src.freq = 1
    /\ dst.freq = MaxRate
    /\ adapter[2] \in VarRateUp
    /\ Count(Plan, HalfBand) = 17
    /\ Len(Plan) >= 22
    /\ adapter[Len(Plan)] = NULL

(***************************************************************************)
(* C18: in a run of a plan built for differing rates the variable-rate     *)
(* stage is executed after all the doubling and halving stages, for        *)
(* upsampling as for downsampling.                                         *)
(***************************************************************************)
C18_VarRateLast ==
    (pc \in {"run", "done"} /\ bret = 0 /\ src.freq # dst.freq)
    => \A j \in 1..Len(log), k \in 1..Len(log) :
          (log[j].adapter \in VarRate /\ log[k].adapter \in HalfBand) => k < j

(***************************************************************************)
(* C18 (amended): a run of a plan built for differing rates executes       *)
(* exactly one variable-rate stage; a down-direction one is executed after *)
(* all the halving stages, an up-direction one before all the doubling     *)
(* stages.                                                                 *)
(***************************************************************************)
C18_VarRateOrder ==
    (pc \in {"run", "done"} /\ bret = 0 /\ src.freq # dst.freq)
    => /\ \A j \in 1..Len(log), k \in 1..Len(log) :
             /\ (log[j].adapter \in VarRateDown /\ log[k].adapter \in HalfBand)
                => k < j
             /\ (log[j].adapter \in VarRateUp /\ log[k].adapter \in HalfBand)
                => j < k
       /\ Cardinality({j \in 1..Len(log) : log[j].adapter \in VarRate}) <= 1
       /\ pc = "done"
          => Cardinality({j \in 1..Len(log) : log[j].adapter \in VarRate}) = 1

C18_Witness ==
    /\ Ran
    /\ bret = 0
    /\ src.freq = 4000
    /\ dst.freq = 32000
    /\ src.channels = 1
    /\ dst.channels = 1
    /\ Len(log) = 3
    /\ log[1].adapter = "varRateUpMono"
    /\ log[2].adapter = "doubleRateMono"
    /\ log[3].adapter = "doubleRateMono"

\* the source rate is 2^k times the destination rate
PowerOfTwoDown(k) ==
    /\ src.freq % (2 ^ k) = 0
    /\ src.freq \div (2 ^ k) = dst.freq
MaxShift == 18

(***************************************************************************)
(* C19: when dst/src is 1/2, 1/4, ... the plan has the -5 dB stage and     *)
(* halving stages but no variable-rate stage.                              *)
(***************************************************************************)
C19_PowerOfTwoNoVarRate ==
    (bret = 0 /\ ValidDescriptor(src) /\ ValidDescriptor(dst)
        /\ \E k \in 1..MaxShift : PowerOfTwoDown(k))
    => /\ Count(Plan, {"minus5dB"}) = 1
       /\ Count(Plan, {"halfRateMono", "halfRateStereo"}) >= 1
       /\ Count(Plan, VarRate) = 0

(***************************************************************************)
(* C19 (amended): when dst/src is 2^-k with k >= 1 the plan has the -5 dB  *)
(* stage once, k - 1 halving stages and exactly one variable-rate stage,   *)
(* a down-direction one; every plan built for differing rates has exactly  *)
(* one variable-rate stage, and the -5 dB stage exactly when dst < src.    *)
(***************************************************************************)
C19_PowerOfTwoPlan ==
    (bret = 0 /\ ValidDescriptor(src) /\ ValidDescriptor(dst)
        /\ src.freq # dst.freq)
    => /\ Count(Plan, VarRate) = 1
       /\ Count(Plan, {"minus5dB"}) = (IF dst.freq < src.freq THEN 1 ELSE 0)
       /\ \A k \in 1..MaxShift :
             PowerOfTwoDown(k)
             => /\ Count(Plan, {"halfRateMono", "halfRateStereo"}) = k - 1
                /\ Count(Plan, VarRateDown) = 1
                /\ Count(Plan, {"doubleRateMono", "doubleRateStereo"}) = 0

C19_Witness ==
    /\ BuiltSameS16
    /\ src.channels = 1
    /\ src.freq = 32000
    /\ dst.freq = 8000
    /\ Plan = <<"minus5dB", "halfRateMono", "varRateDownMono">>

(***************************************************************************)
(* C20: every half-band or variable-rate stage adds one filter width to    *)
(* the additive headroom, so a plan with at least one such stage between   *)
(* descriptors of the same format has add >= _fsize, for downsampling as   *)
(* for upsampling.                                                         *)
(***************************************************************************)
C20_HeadroomPerRateStage ==
    (BuiltSameS16 /\ Count(Plan, HalfBand \cup VarRate) >= 1)
    => add >= _fsize

(***************************************************************************)
(* C11: for distinct rates in [1, 2^18] the doubling loop and the halving  *)
(* loop of createRateConverter terminate (the function gets to the filter  *)
(* setup after them, or has returned), the ratio handed to the             *)
(* variable-rate filter setup lies in [31/64, 64/31], and the fraction     *)
(* that the setup gets from findFraction and stores with the filter is not *)
(* the {0,0} value.                                                        *)
(***************************************************************************)
C11_LoopsTerminateInRange ==
    /\ [](rate.pc = "setup" => ~OutOfRange(rate.Ratio))
    /\ []((rate.pc = "ret" /\ rate.fi >= 0)
          => (filter.numerator > 0 /\ filter.denominator > 0
                 /\ filter.pos_mod > 0))
    /\ <>(rate.pc \in {"setup", "ret"})

\* the statement-by-statement function builds what createRateConverter builds
LoopStepsAgree ==
    rate.pc = "ret"
    => LET R == createRateConverter(
                    [adapter |-> [s \in Slots |-> UNSET], len_mult |-> <<1, 1>>,
                     add |-> 0,
                     filter |-> [pos_mod |-> 0, incr |-> <<>>,
                                 numerator |-> 0, denominator |-> 0],
                     fi |-> 0],
                    rate.SrcRate, rate.DestRate,
                    IF rate.Mono THEN 1 ELSE 2, rate.g, rate.g)
       IN IF R.fi < 0 THEN rate.fi = -1 ELSE R = Data

C11_Witness ==
    /\ rate.pc = "ret"
    /\ rate.SrcRate = MaxRate
    /\ rate.DestRate = 1
    /\ rate.fi = 19
    /\ Count(Plan, {"halfRateMono", "halfRateStereo"}) = 17
    /\ rate.Ratio = <<1, 2>>
    /\ filter.numerator > 0

\* the run of the plan on the memory m with no other execution: st is i and
\* length, U the outcomes of the unsequenced expressions, stage by stage
RECURSIVE RunAlone(_, _, _)
RunAlone(st, m, U) ==
    IF st.i \notin Slots \/ adapter[st.i] \in {NULL, UNSET}
    THEN [length |-> st.length, m |-> m]
    ELSE LET r == RunStage(st, m, adapter, filter, bigEndian, U[st.i + 1])
         IN RunAlone(r.c, r.m, U)

(***************************************************************************)
(* C15: a run does not modify the plan (stage list, multiplier, headroom,  *)
(* filter table), and of two executions of one built plan on two different *)
(* buffers, interleaved stage by stage in any order, each returns the      *)
(* length and leaves the buffer contents that it returns and leaves when   *)
(* it is executed alone (with the same outcomes of the unsequenced         *)
(* expressions of its stages).                                             *)
(***************************************************************************)
RunsAsAlone ==
    /\ Ran
       => [length |-> cret, m |-> buf]
          = RunAlone([i |-> 0, length |-> Len(orig)], orig,
                     [k \in 1..Len(log) |-> log[k].ub])
    /\ other.pc = "done"
       => [length |-> other.cret, m |-> other.buf]
          = RunAlone([i |-> 0, length |-> Len(other.orig)], other.orig,
                     other.ubs)

Appends(S) ==
    /\ rate.fi \in Slots
    /\ rate'.fi = rate.fi + 1
    /\ adapter'[rate.fi] \in S
    /\ adapter[rate.fi] \notin S

\* the multiplier after the step is k times (k > 0) or 1/-k times (k < 0)
\* the multiplier before it
MultiplierTimes(k) ==
    IF k > 0
    THEN len_mult'[1] * len_mult[2] = k * len_mult[1] * len_mult'[2]
    ELSE (0 - k) * len_mult'[1] * len_mult[2] = len_mult[1] * len_mult'[2]

Class(a) ==
    CASE a = "cutFloatTo16Bit" -> "fromFloat"
      [] a = "expand16BitToFloat" -> "toFloat"
      [] a \in {"cut16BitSysTo8Bit", "cut16BitWrongTo8Bit"} -> "narrow"
      [] a \in {"expand8BitTo16BitSys", "expand8BitTo16BitWrong"} -> "widen"
      [] a = "swapBytes" -> "swap"
      [] a \in {"convertStereoToMonoS8Bit", "convertStereoToMonoU8Bit"}
            -> "reduce8"
      [] a \in {"convertStereoToMonoS16Bit", "convertStereoToMonoU16Bit"}
            -> "reduce16"
      [] a = "changeSigned8Bit" -> "sign8"
      [] a \in {"changeSigned16BitSys", "changeSigned16BitWrong"} -> "sign16"
      [] a = "convertMonoToStereo8Bit" -> "expand8"
      [] a = "convertMonoToStereo16Bit" -> "expand16"
      [] OTHER -> "rate"

Classes(q) == [k \in 1..Len(q) |-> Class(q[k])]

Chain8 ==
    <<"fromFloat", "narrow", "reduce8", "sign8", "expand8", "widen",
      "toFloat">>
Chain16 ==
    <<"fromFloat", "swap", "reduce16", "swap", "sign16", "expand16",
      "toFloat">>

\* p is t with some of its elements left out
RECURSIVE IsSubseq(_, _)
IsSubseq(p, t) ==
    IF p = <<>> THEN TRUE
    ELSE IF t = <<>> THEN FALSE
    ELSE IF Head(p) = Head(t) THEN IsSubseq(Tail(p), Tail(t))
    ELSE IsSubseq(p, Tail(t))

(***************************************************************************)
(* C22: the stages one call of the format sub-builder appends are, in this *)
(* order: float-to-int (exactly when the source is float); then, if either *)
(* side is 8-bit, some of width reduction, channel reduction, sign fix,    *)
(* channel expansion, width expansion, otherwise some of byte-order fix,   *)
(* channel reduction, byte-order fix, sign fix, channel expansion (two     *)
(* byte-order fixes only around a channel reduction); then int-to-float    *)
(* (exactly when the destination is float); never both a channel           *)
(* reduction and a channel expansion.  A plan built for equal rates is one *)
(* such call.                                                              *)
(***************************************************************************)
C22_FormatStagesInFixedOrder ==
    (bret = 0 /\ SameRate(src, dst))
    => LET q == Classes(Plan)
       IN /\ IsSubseq(q, IF IS_8BIT(src) \/ IS_8BIT(dst) THEN Chain8
                         ELSE Chain16)
          /\ Count(q, {"fromFloat"}) = (IF IS_FLOAT(src) THEN 1 ELSE 0)
          /\ Count(q, {"toFloat"}) = (IF IS_FLOAT(dst) THEN 1 ELSE 0)
          /\ Count(q, {"swap"}) = 2 => Count(q, {"reduce16"}) = 1
          /\ ~(/\ Count(q, {"reduce8", "reduce16"}) > 0
               /\ Count(q, {"expand8", "expand16"}) > 0)

C22_Witness ==
    /\ bret = 0
    /\ SameRate(src, dst)
    /\ IS_FLOAT(src)
    /\ ~IS_FLOAT(dst)
    /\ Classes(Plan) = <<"fromFloat", "swap", "reduce16", "swap", "sign16">>

(***************************************************************************)
(* C23: 16-bit source in the machine's byte order, 8-bit destination of    *)
(* the same signedness, channel count and rate: the plan is the high-byte  *)
(* truncation cut16BitSysTo8Bit, and output byte i is the high byte        *)
(* (sample >> 8) of input sample i.                                        *)
(***************************************************************************)
C23_NativeSourceKeepsHighByte ==
    (/\ Ran
     /\ bret = 0
     /\ src.format \in {AUDIO_U16SYS(bigEndian), AUDIO_S16SYS(bigEndian)}
     /\ IS_8BIT(dst)
     /\ IS_SIGNED(src) = IS_SIGNED(dst)
     /\ src.channels = dst.channels
     /\ src.freq = dst.freq
     /\ ValidDescriptor(src))
    => /\ Plan = <<"cut16BitSysTo8Bit">>
       /\ cret = len \div 2
       /\ \A i \in 0..((len \div 2) - 1) :
              buf[i + 1] = Rd16(orig, i, bigEndian) \div 256

\* sample i of the memory m as the 16-bit format f reads it (byte order and
\* signedness of f), as an unsigned value: a signed s counts as s + 32768
Decode(m, i, f) ==
    LET hi == IF Bit(f, 4096) THEN Rd8(m, 2 * i) ELSE Rd8(m, 2 * i + 1)
        lo == IF Bit(f, 4096) THEN Rd8(m, 2 * i + 1) ELSE Rd8(m, 2 * i)
        u == hi * 256 + lo
    IN IF Bit(f, 32768) THEN ToS16(u) + 32768 ELSE u

(***************************************************************************)
(* C24: for two 16-bit integer descriptors of equal rate and channel       *)
(* count the run keeps the length, and every sample of the converted       *)
(* buffer, read in the destination's byte order and signedness, has the    *)
(* value of the input sample read in the source's.                         *)
(***************************************************************************)
C24_SameSampleValues16 ==
    (/\ Ran
     /\ bret = 0
     /\ Len(chain) = 1
     /\ src.format \in Formats16
     /\ dst.format \in Formats16
     /\ src.channels = dst.channels
     /\ src.freq = dst.freq
     /\ ValidDescriptor(src))
    => /\ cret = Len(orig)
       /\ \A i \in 0..((Len(orig) \div 2) - 1) :
              Decode(buf, i, dst.format) = Decode(orig, i, src.format)

StereoToMono16 == {"convertStereoToMonoS16Bit", "convertStereoToMonoU16Bit"}
StereoToMono8 == {"convertStereoToMonoS8Bit", "convertStereoToMonoU8Bit"}
SignedMix == {"convertStereoToMonoS16Bit", "convertStereoToMonoS8Bit"}

\* sample k of the memory m as the adapter a reads it
MixValue(a, m, k) ==
    IF a \in StereoToMono16
    THEN IF a \in SignedMix THEN ToS16(Rd16(m, k, bigEndian))
         ELSE Rd16(m, k, bigEndian)
    ELSE IF a \in SignedMix THEN ToS8(Rd8(m, k)) ELSE Rd8(m, k)

\* (x + y) / 2 truncated toward zero
TruncMean(x, y) ==
    IF x + y >= 0 THEN (x + y) \div 2 ELSE 0 - ((0 - (x + y)) \div 2)

(***************************************************************************)
(* C25: a stereo-to-mono adapter, run as the only stage of a plan, returns *)
(* half the input length and writes for every input frame (a, b) the mean  *)
(* of a and b truncated toward zero, also for negative odd sums.           *)
(***************************************************************************)
C25_MeanTruncatedTowardZero ==
    (/\ Ran
     /\ bret = 0
     /\ Len(log) = 1
     /\ log[1].adapter \in StereoToMono16 \cup StereoToMono8)
    => LET a == log[1].adapter
           frames == IF a \in StereoToMono16 THEN len \div 4 ELSE len \div 2
       IN /\ 2 * cret = len
          /\ \A k \in 0..(frames - 1) :
                MixValue(a, buf, k)
                = TruncMean(MixValue(a, orig, 2 * k),
                            MixValue(a, orig, 2 * k + 1))

(***************************************************************************)
(* C26: a mono-to-stereo adapter, run as the only stage of a plan on a     *)
(* buffer of L bytes, returns 2L, writes no byte at an offset >= 2L, and   *)
(* leaves in the bytes [0, 2L) every input sample twice, in the original   *)
(* order.                                                                  *)
(***************************************************************************)
C26_DuplicatesInPlace ==
    (/\ Ran
     /\ bret = 0
     /\ Len(log) = 1
     /\ log[1].adapter
            \in {"convertMonoToStereo8Bit", "convertMonoToStereo16Bit"})
    => LET w == IF log[1].adapter = "convertMonoToStereo8Bit" THEN 1 ELSE 2
       IN /\ cret = 2 * len
          /\ log[1].hi <= 2 * len
          /\ \A k \in 0..((len \div w) - 1), j \in 0..(w - 1) :
                /\ Rd8(buf, 2 * w * k + j) = orig[w * k + j + 1]
                /\ Rd8(buf, 2 * w * k + w + j) = orig[w * k + j + 1]

MonoRateAdapters ==
    {"doubleRateMono", "halfRateMono", "varRateUpMono", "varRateDownMono"}

\* the kernel family an adapter belongs to by its name
KernelOf(a) ==
    CASE a \in {"doubleRateMono", "doubleRateStereo"} -> "_doubleRate"
      [] a \in {"halfRateMono", "halfRateStereo"} -> "_halfRate"
      [] a \in VarRateUp -> "_varRateUp"
      [] OTHER -> "_varRateDown"

(***************************************************************************)
(* C27: in every run, a mono rate adapter calls the stride-1 kernel of its *)
(* family once over length/2 samples and returns 2 times the kernel's      *)
(* count; a stereo rate adapter calls the stride-2 kernel twice, at        *)
(* offsets 0 and 1, over length/4 frames and returns 4 times the count.    *)
(***************************************************************************)
C27_RateAdaptersUniform ==
    \A k \in 1..Len(log) :
       LET e == log[k]
           K == KernelOf(e.adapter)
       IN (e.adapter \in HalfBand \cup VarRate)
          => IF e.adapter \in MonoRateAdapters
             THEN /\ e.calls = <<[kernel |-> K, stride |-> 1, off |-> 0,
                                  n |-> e.lenIn \div 2]>>
                  /\ e.lenOut = 2 * KernelCount(K, e.lenIn \div 2, filter)
             ELSE /\ e.calls = <<[kernel |-> K, stride |-> 2, off |-> 0,
                                  n |-> e.lenIn \div 4],
                                 [kernel |-> K, stride |-> 2, off |-> 1,
                                  n |-> e.lenIn \div 4]>>
                  /\ e.lenOut = 4 * KernelCount(K, e.lenIn \div 4, filter)

\* the advance flags of the walk that starts from phase 0: each phase adds d
\* and, when the sum exceeds n (strict) or reaches n (not strict), subtracts
\* n and takes the wrap value
RECURSIVE Walk(_, _, _, _, _, _)
Walk(i, phase, n, d, Direction, strict) ==
    IF i >= d THEN <<>>
    ELSE LET p == phase + d
             wrap == IF strict THEN p > n ELSE p >= n
         IN <<IF wrap THEN Direction.incr ELSE 1 + Direction.incr>>
            \o Walk(i + 1, IF wrap THEN p - n ELSE p, n, d, Direction, strict)

(***************************************************************************)
(* C28: after a build for differing rates the filter table has exactly     *)
(* den <= 16 phases for the chosen fraction num/den, and its advance flags *)
(* are those of the walk from phase 0 (whether "exceeds" is read as > or   *)
(* as >=), so that they depend on the ratio and the direction only.        *)
(***************************************************************************)
C28_AdvanceFlagsFromPhaseZero ==
    (bret = 0 /\ ValidDescriptor(src) /\ ValidDescriptor(dst)
        /\ src.freq # dst.freq)
    => LET Direction == IF dst.freq > src.freq THEN Up ELSE Down
           n == filter.numerator
           d == filter.denominator
       IN /\ filter.pos_mod = d
          /\ 1 <= d
          /\ d <= 16
          /\ Len(filter.incr) = d
          /\ \/ filter.incr = Walk(0, 0, n, d, Direction, TRUE)
             \/ filter.incr = Walk(0, 0, n, d, Direction, FALSE)

(***************************************************************************)
(* The WAV decoder's find_chunk (decoders/wav.c), one call step by step.   *)
(* wav.rw is the stream: its bytes and its read position.  wav.id is the   *)
(* wanted id, wav._id and wav.siz the two locals, wav.NDEBUG whether the   *)
(* build compiles assert out.  wav.rejected holds the positions of the     *)
(* chunk ids the call has rejected, wav.again that it rejected one of      *)
(* them a second time.                                                     *)
(***************************************************************************)
riffID == 1179011410
waveID == 1163280727
fmtID == 544501094
dataID == 1635017060

MaxWords == 3

\* the four bytes of a 32-bit word, least significant first
Bytes32(w) ==
    <<w % 256, (w \div 256) % 256, (w \div 65536) % 256,
      (w \div 16777216) % 256>>

\* SDL_SwapLE32 of the four bytes read at position p, as a 32-bit pattern
\* (Sint32 siz and Uint32 _id with the same bits are the same number here)
LE32(data, p) ==
    data[p + 1] + 256 * data[p + 2] + 65536 * data[p + 3]
        + 16777216 * (IF data[p + 4] >= 128 THEN data[p + 4] - 256
                      ELSE data[p + 4])

\* SDL_RWread( rw, &x, 4, 1 ) returns 1 when four bytes remain
CanRead(rw) == rw.pos >= 0 /\ rw.pos + 4 <= Len(rw.data)

\* SDL_RWseek( rw, siz, SEEK_SET ): the position it leaves and the value it
\* returns.  Inside the stream both are siz; past the end a file stream
\* moves there and a memory stream stops at the end; a negative offset is
\* refused with -1 or stopped at 0.
Seek(rw, siz) ==
    IF siz < 0 THEN {[pos |-> rw.pos, r |-> 0 - 1], [pos |-> 0, r |-> 0]}
    ELSE IF siz <= Len(rw.data) THEN {[pos |-> siz, r |-> siz]}
    ELSE {[pos |-> siz, r |-> siz],
          [pos |-> Len(rw.data), r |-> Len(rw.data)]}

\* the words the chunk area of the input streams is made of
WavWords ==
    {Bytes32(fmtID), Bytes32(dataID), Bytes32(0), Bytes32(12), Bytes32(13),
     Bytes32(16), Bytes32(20), Bytes32(24), <<255, 255, 255, 255>>}

RECURSIVE Flatten(_)
Flatten(ws) == IF ws = <<>> THEN <<>> ELSE Head(ws) \o Flatten(Tail(ws))

\* the input streams: RIFF, the length, WAVE, then up to MaxWords words
WavStreams ==
    {Bytes32(riffID) \o Bytes32(4 + 4 * Len(ws)) \o Bytes32(waveID)
        \o Flatten(ws) :
        ws \in UNION {[1..n -> WavWords] : n \in 1..MaxWords}}

\* WAV_open_internal has read the three header words when it calls
\* find_chunk( rw, fmtID )
FindCall(data, nd) ==
    /\ wav.pc = "off"
    /\ wav' = [pc |-> "top", rw |-> [data |-> data, pos |-> 12],
               id |-> fmtID, _id |-> 0, siz |-> 0, NDEBUG |-> nd,
               ret |-> NoResult, rejected |-> {}, again |-> FALSE]
    /\ UNCHANGED <<cvtVars, scan, rate, other>>

\* BAIL_IF_MACRO( SDL_RWread( rw, &_id, sizeof (_id), 1 ) != 1, NULL, 0 )
FindReadIdFail ==
    /\ wav.pc = "top"
    /\ ~CanRead(wav.rw)
    /\ wav' = [wav EXCEPT !.pc = "ret", !.ret = 0]
    /\ UNCHANGED <<cvtVars, scan, rate, other>>

FindReadId ==
    /\ wav.pc = "top"
    /\ CanRead(wav.rw)
    /\ wav' = [wav EXCEPT !.pc = "test",
                          !._id = LE32(wav.rw.data, wav.rw.pos),
                          !.rw.pos = @ + 4]
    /\ UNCHANGED <<cvtVars, scan, rate, other>>

\* if( SDL_SwapLE32( _id ) == id ) return( 1 )
FindMatch ==
    /\ wav.pc = "test"
    /\ wav._id = wav.id
    /\ wav' = [wav EXCEPT !.pc = "ret", !.ret = 1]
    /\ UNCHANGED <<cvtVars, scan, rate, other>>

FindMismatch ==
    /\ wav.pc = "test"
    /\ wav._id # wav.id
    /\ wav' = [wav EXCEPT !.pc = "size",
                          !.rejected = @ \cup {wav.rw.pos - 4},
                          !.again = @ \/ (wav.rw.pos - 4) \in wav.rejected]
    /\ UNCHANGED <<cvtVars, scan, rate, other>>

\* BAIL_IF_MACRO( SDL_RWread( rw, &siz, sizeof (siz), 1 ) != 1, NULL, 0 )
FindReadSizFail ==
    /\ wav.pc = "size"
    /\ ~CanRead(wav.rw)
    /\ wav' = [wav EXCEPT !.pc = "ret", !.ret = 0]
    /\ UNCHANGED <<cvtVars, scan, rate, other>>

\* siz = SDL_SwapLE32( siz )
FindReadSiz ==
    /\ wav.pc = "size"
    /\ CanRead(wav.rw)
    /\ wav' = [wav EXCEPT !.pc = "assert",
                          !.siz = LE32(wav.rw.data, wav.rw.pos),
                          !.rw.pos = @ + 4]
    /\ UNCHANGED <<cvtVars, scan, rate, other>>

\* assert( siz > 0 ): the process is aborted unless NDEBUG is defined
FindAssertAbort ==
    /\ wav.pc = "assert"
    /\ ~wav.NDEBUG
    /\ wav.siz <= 0
    /\ wav' = [wav EXCEPT !.pc = "abort"]
    /\ UNCHANGED <<cvtVars, scan, rate, other>>

FindAssertPass ==
    /\ wav.pc = "assert"
    /\ wav.NDEBUG \/ wav.siz > 0
    /\ wav' = [wav EXCEPT !.pc = "seek"]
    /\ UNCHANGED <<cvtVars, scan, rate, other>>

\* BAIL_IF_MACRO( SDL_RWseek( rw, siz, SEEK_SET ) != siz, NULL, 0 )
FindSeekFail(o) ==
    /\ wav.pc = "seek"
    /\ o.r # wav.siz
    /\ wav' = [wav EXCEPT !.pc = "ret", !.ret = 0, !.rw.pos = o.pos]
    /\ UNCHANGED <<cvtVars, scan, rate, other>>

\* the seek returned siz: back to the top of while (1)
FindSeek(o) ==
    /\ wav.pc = "seek"
    /\ o.r = wav.siz
    /\ wav' = [wav EXCEPT !.pc = "top", !.rw.pos = o.pos]
    /\ UNCHANGED <<cvtVars, scan, rate, other>>

FindSteps ==
    \/ FindReadIdFail
    \/ FindReadId
    \/ FindMatch
    \/ FindMismatch
    \/ FindReadSizFail
    \/ FindReadSiz
    \/ FindAssertAbort
    \/ FindAssertPass
    \/ \E o \in Seek(wav.rw, wav.siz) : FindSeekFail(o)
    \/ \E o \in Seek(wav.rw, wav.siz) : FindSeek(o)

NextWav ==
    \/ \E data \in WavStreams, nd \in BOOLEAN : FindCall(data, nd)
    \/ FindSteps

\* a started call keeps taking steps until it returns or is aborted
SpecWav == Init /\ [][NextWav]_vars /\ WF_vars(FindSteps)

(***************************************************************************)
(* C29: every started call of find_chunk ends, on every input stream: it   *)
(* returns 1 or 0, the one other way out being the assert stopping the     *)
(* process.  A call that rejected the chunk at one position twice and      *)
(* keeps doing so never ends.                                              *)
(***************************************************************************)
C29_FindChunkTerminates ==
    (wav.pc # "off")
        ~> \/ wav.pc = "ret" /\ wav.ret \in {0, 1}
           \/ wav.pc = "abort"

(***************************************************************************)
(* C30: during the scan of findFraction every index read is one of the 96  *)
(* entries of frac, the numerator an iteration is about to score is the    *)
(* table entry at the scan's index, read there, and when the scan returns  *)
(* the denominator has advanced over the 15 separators to 16.              *)
(***************************************************************************)
C30_ScanStaysInTable ==
    scan.pc \in {"loop", "ret"}
    => /\ scan.s.reads \subseteq 0..(Len(frac) - 1)
       /\ (scan.pc = "loop" /\ scan.s.n < Len(frac))
          => /\ scan.s.n \in scan.s.reads
             /\ scan.s.num = frac[scan.s.n + 1]
       /\ scan.pc = "ret" => scan.s.den = 16

=============================================================================
